---- MODULE Spec2Model ----
(***************************************************************************)
(* Payment settlement of the billing backend: the request handlers that    *)
(* apply a payment to a customer's outstanding invoices, create receipts   *)
(* and update the customer's closing balance, over the Prisma/MongoDB      *)
(* store declared in prisma/schema.prisma.                                 *)
(*                                                                         *)
(* Money (Float in the schema) is counted in half-shillings, so 1 is KES   *)
(* 0.50 and 2 is KES 1.00: halves are exact in IEEE doubles, so the        *)
(* handlers' float arithmetic is exact on them, and Math.round is not the  *)
(* identity.                                                               *)
(*                                                                         *)
(* A handler without prisma.$transaction takes one step per awaited store  *)
(* call, so that other requests interleave between its calls and a failed  *)
(* call leaves the earlier writes in place.  A prisma.$transaction body is *)
(* one step that either commits all of its writes or none.                 *)
(***************************************************************************)
EXTENDS Integers, Sequences, FiniteSets, TLC

\* Requests served in one behaviour.
MaxCalls == 2
\* Size of the space generateReceiptNumber draws from.
NumReceiptNumbers == 3

Procs == 1..MaxCalls
\* The calls of settleInvoice that can be running at once.
Runners == {1, 2}
Customers == {1, 2}
InvoiceIds == 1..3
PaymentIds == 1..2
PaymentAmounts == {1, 2, 3, 6}
RcptNums == 1..NumReceiptNumbers

VARIABLES
    closingBalance,  \* Customer.closingBalance, per customer id
    invoices,        \* Invoice records, per invoice id
    payments,        \* Payment records, in order of creation (id = index)
    receipts,        \* the set of Receipt records
    req,             \* per request: handler, position, locals, response
    pre,             \* history: the store and credit when the latest request started (kept when
                     \* requests run one at a time)
    applied,         \* history: per invoice, initial amountPaid plus every amount applied to it
    credit,          \* history: per customer, the money received that no invoice took
    oneAtATime,      \* whether a request arrives only when the last one has ended
    calls,           \* the requests that have arrived
    mpesaTransactions, \* MpesaTransaction records, in order of creation
    pass,            \* settleInvoice: the pass over the unprocessed transactions
    phone,           \* a phone number on its way to the SMS gateway: as stored, as sanitized
    office,          \* the back-office operations: the latest one and its response
    sms              \* the sms records and the call that is sending messages

store == <<closingBalance, invoices, payments, receipts>>
ingestVars == <<mpesaTransactions, pass>>
otherVars == <<phone, office, sms>>
vars == <<closingBalance, invoices, payments, receipts, req, pre, applied, credit, oneAtATime, calls,
          mpesaTransactions, pass, phone, office, sms>>

Min(a, b) == IF a <= b THEN a ELSE b

\* Math.round on an amount in half-shillings: to the nearest whole shilling, halves up.
MathRound(h) == 2 * ((h + 1) \div 2)

\* schema.prisma: the customer an invoice belongs to; createdAt ascends with the id.
InvCustomer(i) == IF i <= 2 THEN 1 ELSE 2

----------------------------------------------------------------------------
(* The store *)

\* generateReceiptNumber(): any number of the space.  Receipt numbers matter only
\* by being equal or not, so the least numbers no receipt has stand for every
\* unused one: a draw is a number in use or one of the n least unused.
RECURSIVE LeastOf(_, _)
LeastOf(S, n) ==
    IF n = 0 \/ S = {} THEN {}
    ELSE LET m == CHOOSE x \in S : \A y \in S : x <= y
         IN  {m} \cup LeastOf(S \ {m}, n - 1)

generateReceiptNumber(rs, n) ==
    LET used == {x.receiptNumber : x \in rs}
    IN  used \cup LeastOf(RcptNums \ used, n)

\* The unique index on receiptNumber left out: only paymentId is checked.
ReceiptUniquePaymentIdOnly(rs, r) ==
    \A x \in rs : x.paymentId # r.paymentId

\* Receipt.receiptNumber @unique and Receipt.paymentId @unique.
ReceiptUnique(rs, r) ==
    \A x \in rs : x.receiptNumber # r.receiptNumber /\ x.paymentId # r.paymentId

Receipt(c, amount, n, pay, inv) ==
    [customerId |-> c, amount |-> amount, receiptNumber |-> n, paymentId |-> pay,
     forInvoice |-> inv, receiptInvoices |-> <<>>]

\* A Payment record; TransactionId (@unique when set) and receiptId are 0 for null.
Payment(amount, receipted, TransactionId) ==
    [amount |-> amount, receipted |-> receipted, TransactionId |-> TransactionId,
     receiptId |-> 0]

\* The unique indexes a new receipt would violate.
UniqueViolations(rs, r) ==
    {"receiptNumber" : x \in {y \in rs : y.receiptNumber = r.receiptNumber}}
        \cup {"paymentId" : x \in {y \in rs : y.paymentId = r.paymentId}}

\* The numbers generateUniqueReceiptNumber has returned that are not yet on a
\* receipt: a draw can be such a number as well as one no one holds.
NumbersHeld == Cardinality({w \in Runners : pass[w].receiptNumber # 0})

\* invoice.findMany({where: {customerId, status in statuses}, orderBy: {createdAt: 'asc'}})
RECURSIVE FindInvoicesFrom(_, _, _, _)
FindInvoicesFrom(invs, c, statuses, i) ==
    IF i > Cardinality(InvoiceIds) THEN <<>>
    ELSE (IF invs[i].customerId = c /\ invs[i].status \in statuses
          THEN <<[id |-> i, invoiceAmount |-> invs[i].invoiceAmount,
                  amountPaid |-> invs[i].amountPaid]>>
          ELSE <<>>) \o FindInvoicesFrom(invs, c, statuses, i + 1)

\* The where clause without customerId: the invoices of every customer.
FindInvoicesOfEveryone(invs, c, statuses) ==
    FindInvoicesFrom(invs, 1, statuses, 1) \o FindInvoicesFrom(invs, 2, statuses, 1)

FindInvoices(invs, c, statuses) == FindInvoicesFrom(invs, c, statuses, 1)

----------------------------------------------------------------------------
(* The allocation loop shared by the handlers:                              *)
(*   for (const invoice of invoices) {                                      *)
(*       if (remainingAmount <= 0) break;                                   *)
(*       const invoiceDue = invoice.invoiceAmount - invoice.amountPaid;     *)
(*       const paymentForInvoice = Math.min(remainingAmount, invoiceDue);   *)
(*       ... remainingAmount -= paymentForInvoice; }                        *)
(* It reads only the invoices it was given and its own remainingAmount, so  *)
(* the visits are a function of the snapshot and the amount.                *)

\* The whole due applied, whatever is left of the payment.
PaymentForInvoiceDue(remainingAmount, invoice) ==
    invoice.invoiceAmount - invoice.amountPaid

PaymentForInvoice(remainingAmount, invoice) ==
    Min(remainingAmount, invoice.invoiceAmount - invoice.amountPaid)

RECURSIVE Allocate(_, _)
Allocate(invs, remainingAmount) ==
    IF invs = <<>> \/ remainingAmount <= 0 THEN <<>>
    ELSE LET invoice == Head(invs)
             paymentForInvoice == PaymentForInvoice(remainingAmount, invoice)
         IN  <<[id |-> invoice.id, invoiceAmount |-> invoice.invoiceAmount,
                amountPaid |-> invoice.amountPaid,
                paymentForInvoice |-> paymentForInvoice]>>
             \o Allocate(Tail(invs), remainingAmount - paymentForInvoice)

RECURSIVE AppliedToInvoices(_)
AppliedToInvoices(plan) ==
    IF plan = <<>> THEN 0
    ELSE Head(plan).paymentForInvoice + AppliedToInvoices(Tail(plan))

\* remainingAmount once the loop has ended.
RemainingAmount(plan, totalAmount) == totalAmount - AppliedToInvoices(plan)

----------------------------------------------------------------------------
(* Requests *)

IdleReq ==
    [kind |-> "none", pc |-> "idle", customerId |-> 0, paymentId |-> 0, amount |-> 0,
     cb |-> 0, plan |-> <<>>, idx |-> 0, status |-> 0, error |-> "none",
     writes |-> <<>>, startReceipted |-> FALSE, preBal |-> 0,
     responses |-> <<>>, sms |-> "none"]

\* The handler returns: its locals are gone.
End(r) == [r EXCEPT !.pc = "done", !.cb = 0, !.plan = <<>>, !.idx = 0]

\* res.status(status).json(...) as the handler's only response, then it returns.
Finish(r, status, error) ==
    End([r EXCEPT !.status = status, !.error = error, !.responses = Append(@, status)])

RECURSIVE DueSum(_, _, _)
DueSum(invs, c, i) ==
    IF i > Cardinality(InvoiceIds) THEN 0
    ELSE (IF invs[i].customerId = c /\ invs[i].status \in {"UNPAID", "PPAID"}
          THEN invs[i].invoiceAmount - invs[i].amountPaid ELSE 0)
         + DueSum(invs, c, i + 1)

\* An invoice is created UNPAID with amountPaid 0 (the schema's defaults); one
\* with an amount paid got its status from MpesaPaymentSettlement.
InvoiceStatusInit(amountPaid, invoiceAmount) ==
    IF amountPaid = 0 THEN "UNPAID"
    ELSE IF amountPaid >= invoiceAmount THEN "PAID" ELSE "PPAID"

\* Customer 1 owes two invoices, of KES 1.00 and KES 1.50 (the older one may be
\* partly paid); customer 2's only invoice is paid.
InvoiceAmountInit == <<2, 3, 2>>
AmountPaidInit == {<<0, 0, 2>>, <<1, 0, 2>>}
\* The store the concurrent requests start from: nothing paid on customer 1's
\* invoices, two Payments of KES 0.50 or KES 1.00 waiting to be settled.
AmountPaidInitConcurrent == <<0, 0, 2>>
PaymentAmountsConcurrent == {1, 2}

InitStore(amountPaidInit, paymentAmounts) ==
    /\ \E paid \in amountPaidInit :
         invoices = [i \in InvoiceIds |->
                       [customerId |-> InvCustomer(i), invoiceAmount |-> InvoiceAmountInit[i],
                        amountPaid |-> paid[i],
                        status |-> InvoiceStatusInit(paid[i], InvoiceAmountInit[i])]]
    /\ closingBalance = [c \in Customers |-> DueSum(invoices, c, 1)]
    /\ payments \in [PaymentIds -> {Payment(amount, FALSE, 0) : amount \in paymentAmounts}]
    /\ receipts = {}
    /\ req = [p \in Procs |-> IdleReq]
    /\ applied = [i \in InvoiceIds |-> invoices[i].amountPaid]
    /\ credit = [c \in Customers |-> 0]
    /\ pre = [closingBalance |-> closingBalance, invoices |-> invoices,
              payments |-> payments, receipts |-> receipts, credit |-> credit]

\* settleInvoice is not running.
IdlePass ==
    [version |-> "A", pc |-> "idle", fetched |-> <<>>, i |-> 0, cb |-> 0,
     receiptNumber |-> 0, paymentId |-> 0, plan |-> <<>>, idx |-> 0,
     error |-> "none", sms |-> {}, runs |-> 0]

\* No phone number is on its way to the gateway.
NoPhone == [form |-> "none", local |-> <<>>, stored |-> <<>>, sanitizer |-> "none",
            mobile |-> <<>>, times |-> 0]

\* No back-office operation has been called.
NoOffice == [operation |-> "none", status |-> 0, customers |-> {}, done |-> 0]

\* No sms record exists and no message is being sent.
NoSms ==
    [records |-> <<>>, helper |-> "none", pc |-> "idle", recipients |-> 0, ids |-> {},
     thrown |-> "none"]

\* Nothing but settlement is going on.
NoOtherOperation == phone = NoPhone /\ office = NoOffice /\ sms = NoSms

\* No Mpesa transaction has been recorded and settleInvoice never runs.
NoIngestion == mpesaTransactions = <<>> /\ pass = [w \in Runners |-> IdlePass]

NoTxKinds == {"MpesaNoTx", "manualCashPayment", "manualReceipt"}
TxKinds == {"MpesaTx", "MpesaTxBalanceFirst"}
MpesaKinds == {"MpesaNoTx", "MpesaTx", "MpesaTxBalanceFirst"}
Kinds == NoTxKinds \cup TxKinds


\* The notification issued first, before anything is read or written.
FirstPcSendSMS(kind) == "sendSMS"

FirstPc(kind) == IF kind \in TxKinds THEN "transaction" ELSE "findCustomer"

\* A request arrives: req.body's customerId and paymentId (0: an id no record has)
\* for the settlement of an existing Payment, customerId and totalAmount for a
\* manual payment.
Start(p, kind, c, pay, totalAmount) ==
    /\ calls < MaxCalls
    /\ IF oneAtATime
       THEN p = 1 /\ req[p].pc \in {"idle", "done"}
       ELSE req[p].pc = "idle" /\ (IF p = 1 THEN TRUE ELSE req[p - 1].pc # "idle")
    /\ calls' = calls + 1
    /\ req' = [req EXCEPT ![p] =
                 [IdleReq EXCEPT !.kind = kind, !.pc = FirstPc(kind), !.customerId = c,
                           !.paymentId = pay, !.amount = totalAmount,
                           !.startReceipted = pay \in DOMAIN payments /\ payments[pay].receipted,
                           !.preBal = IF oneAtATime /\ c \in Customers
                                      THEN closingBalance[c] ELSE 0]]
    /\ pre' = IF oneAtATime
              THEN [closingBalance |-> closingBalance, invoices |-> invoices,
                    payments |-> payments, receipts |-> receipts, credit |-> credit]
              ELSE pre
    /\ UNCHANGED <<store, applied, credit, oneAtATime, otherVars, ingestVars>>

StartMpesa(p) ==
    \E kind \in MpesaKinds, c \in Customers \cup {0}, pay \in DOMAIN payments \cup {0} :
        Start(p, kind, c, pay, 0)

StartManual(p) ==
    \E kind \in Kinds \ MpesaKinds, c \in Customers \cup {0}, totalAmount \in PaymentAmounts :
        Start(p, kind, c, 0, totalAmount)

----------------------------------------------------------------------------
(* What the handlers compute *)

\* MpesaPaymentSettlement: the status written with an invoice's new amountPaid.
MpesaNewStatus(newAmountPaid, invoiceAmount) ==
    IF newAmountPaid >= invoiceAmount THEN "PAID" ELSE "PPAID"

\* manualCashPayment: the status written with an invoice's new amountPaid.
CashNewStatus(newAmountPaid, invoiceAmount) ==
    IF newAmountPaid >= invoiceAmount THEN "PAID" ELSE "UNPAID"

\* The check of payment.receipted left out: every payment passes.
AlreadyReceiptedSkipped(payment) == FALSE

\* MpesaPaymentSettlement: if (payment.receipted), the payment was settled before.
AlreadyReceipted(payment) == payment.receipted

\* MpesaPaymentSettlement without a transaction: finalClosingBalance.
MpesaFinalClosingBalance(balance, totalAmount) == balance - totalAmount

\* MpesaPaymentSettlement in a transaction: finalClosingBalance.
MpesaTxFinalClosingBalance(balance, appliedToInvoices, remainingAmount) ==
    MathRound(balance - appliedToInvoices - remainingAmount)

\* MpesaPaymentSettlement updating the balance first: updatedClosingBalance.
UpdatedClosingBalance(balance, totalAmount) == balance - totalAmount

\* manualCashPayment: finalClosingBalance starts as customer.closingBalance and
\* only an overpayment is deducted from it.
CashFinalClosingBalance(balance, remainingAmount) ==
    IF remainingAmount > 0 THEN balance - remainingAmount ELSE balance

\* manualReceipt: the status written with an invoice's new amountPaid.
ReceiptNewStatus(newAmountPaid, invoiceAmount) ==
    IF newAmountPaid >= invoiceAmount THEN "PAID" ELSE "UNPAID"

\* manualReceipt: newClosingBalance, the same in its three branches.
ReceiptNewClosingBalance(balance, totalAmount) == balance - totalAmount

\* The invoices each handler's findMany selects.
MpesaWhere == {"UNPAID", "PPAID"}
CashWhere == {"UNPAID"}

\* A findMany with no orderBy: the store may return the records in any order.
AnyOrder(invs) ==
    {[k \in 1..Len(invs) |-> invs[f[k]]] :
        f \in {g \in [1..Len(invs) -> 1..Len(invs)] :
                  \A a, b \in 1..Len(invs) : a # b => g[a] # g[b]}}

\* findMany as each handler calls it: manualReceipt gives no orderBy.
FoundInvoices(kind, invs, c) ==
    IF kind = "MpesaNoTx" THEN {FindInvoices(invs, c, MpesaWhere)}
    ELSE IF kind = "manualCashPayment" THEN {FindInvoices(invs, c, CashWhere)}
    ELSE AnyOrder(FindInvoices(invs, c, CashWhere))

----------------------------------------------------------------------------
(* MpesaPaymentSettlement without a transaction, manualCashPayment and      *)
(* manualReceipt, one step per awaited store call                           *)

\* Where the handler goes on after the invoice at idx - 1: the next visit of the
\* loop, the receipt for what is left, or the balance update.
LoopPc(kind, plan, idx, totalAmount) ==
    IF idx <= Len(plan) THEN "invoiceUpdate"
    ELSE IF kind # "manualReceipt" /\ RemainingAmount(plan, totalAmount) > 0
         THEN "unmatchedReceipt"
    ELSE "customerUpdate"

\* prisma.customer.findUnique; no customer: 404.
findCustomer(p) ==
    /\ req[p].kind \in NoTxKinds /\ req[p].pc = "findCustomer"
    /\ req' = [req EXCEPT ![p] =
                 IF @.customerId \in Customers
                 THEN [@ EXCEPT !.cb = closingBalance[req[p].customerId],
                                !.pc = IF req[p].kind = "MpesaNoTx" THEN "findPayment"
                                       ELSE IF req[p].kind = "manualCashPayment"
                                            THEN "paymentCreate"
                                       ELSE "findInvoices"]
                 ELSE Finish(@, 404, "NotFound")]
    /\ UNCHANGED <<store, pre, applied, credit, oneAtATime, otherVars, calls, ingestVars>>

\* MpesaPaymentSettlement: prisma.payment.findUnique; no payment: 404; receipted: 400.
findPayment(p) ==
    /\ req[p].kind = "MpesaNoTx" /\ req[p].pc = "findPayment"
    /\ req' = [req EXCEPT ![p] =
                 IF @.paymentId \notin DOMAIN payments THEN Finish(@, 404, "NotFound")
                 ELSE IF AlreadyReceipted(payments[@.paymentId])
                      THEN Finish(@, 400, "AlreadyReceipted")
                 ELSE [@ EXCEPT !.amount = payments[req[p].paymentId].amount,
                                !.pc = "markReceipted"]]
    /\ UNCHANGED <<store, pre, applied, credit, oneAtATime, otherVars, calls, ingestVars>>

\* MpesaPaymentSettlement: prisma.payment.update({data: {receipted: true}}).
markReceipted(p) ==
    /\ req[p].kind = "MpesaNoTx" /\ req[p].pc = "markReceipted"
    /\ payments' = [payments EXCEPT ![req[p].paymentId].receipted = TRUE]
    /\ req' = [req EXCEPT ![p].pc = "findInvoices",
                          ![p].writes = Append(@, "payment")]
    /\ UNCHANGED <<closingBalance, invoices, receipts, pre, applied, credit, oneAtATime, otherVars, calls, ingestVars>>

\* prisma.payment.create.  manualCashPayment: one Payment of totalAmount before
\* the invoices are read, receipted left at its default.  manualReceipt: one
\* Payment, receipted, per visited invoice for the amount applied to it, or one
\* of totalAmount when no invoice is unpaid.
paymentCreate(p) ==
    /\ req[p].kind \in {"manualCashPayment", "manualReceipt"}
    /\ req[p].pc = "paymentCreate"
    /\ LET r == req[p]
           cash == r.kind = "manualCashPayment"
           amount == IF cash \/ r.plan = <<>> THEN r.amount
                     ELSE r.plan[r.idx].paymentForInvoice
       IN  /\ payments' = Append(payments, Payment(amount, ~cash, 0))
           /\ req' = [req EXCEPT ![p].paymentId = Len(payments) + 1,
                                 ![p].pc = IF cash THEN "findInvoices"
                                           ELSE IF r.plan = <<>> THEN "unmatchedReceipt"
                                           ELSE "receiptCreate",
                                 ![p].writes = Append(@, "payment")]
    /\ UNCHANGED <<closingBalance, invoices, receipts, pre, applied, credit, oneAtATime, otherVars, calls, ingestVars>>

\* prisma.invoice.findMany; the loop's visits follow from what it returned.
\* manualReceipt with no unpaid invoice (invoices.length === 0) goes to create the
\* Payment and the receipt for the whole amount.
findInvoices(p) ==
    /\ req[p].kind \in NoTxKinds /\ req[p].pc = "findInvoices"
    /\ \E found \in FoundInvoices(req[p].kind, invoices, req[p].customerId) :
         LET r == req[p]
             plan == Allocate(found, r.amount)
         IN  req' = [req EXCEPT ![p].plan = plan, ![p].idx = 1,
                                ![p].pc = IF r.kind = "manualReceipt" /\ found = <<>>
                                          THEN "paymentCreate"
                                          ELSE LoopPc(r.kind, plan, 1, r.amount)]
    /\ UNCHANGED <<store, pre, applied, credit, oneAtATime, otherVars, calls, ingestVars>>

\* prisma.invoice.update with the amountPaid and status computed from the invoice
\* as it was read.
invoiceUpdate(p) ==
    /\ req[p].kind \in NoTxKinds /\ req[p].pc = "invoiceUpdate"
    /\ LET r == req[p]
           invoice == r.plan[r.idx]
           newAmountPaid == invoice.amountPaid + invoice.paymentForInvoice
           newStatus == IF r.kind = "MpesaNoTx"
                        THEN MpesaNewStatus(newAmountPaid, invoice.invoiceAmount)
                        ELSE IF r.kind = "manualCashPayment"
                             THEN CashNewStatus(newAmountPaid, invoice.invoiceAmount)
                        ELSE ReceiptNewStatus(newAmountPaid, invoice.invoiceAmount)
       IN  /\ invoices' = [invoices EXCEPT ![invoice.id].amountPaid = newAmountPaid,
                                           ![invoice.id].status = newStatus]
           /\ applied' = [applied EXCEPT ![invoice.id] = @ + invoice.paymentForInvoice]
    /\ req' = [req EXCEPT ![p].pc = IF req[p].kind = "manualReceipt"
                                    THEN "paymentCreate" ELSE "receiptCreate",
                          ![p].writes = Append(@, "invoice")]
    /\ UNCHANGED <<closingBalance, payments, receipts, pre, credit, oneAtATime, otherVars, calls, ingestVars>>

\* generateReceiptNumber() and prisma.receipt.create for the amount applied to the
\* invoice; a unique index refusing the record throws.
receiptCreate(p) ==
    /\ req[p].kind \in NoTxKinds /\ req[p].pc = "receiptCreate"
    /\ \E receiptNumber \in generateReceiptNumber(receipts, 1 + NumbersHeld) :
         LET r == req[p]
             invoice == r.plan[r.idx]
             receipt == Receipt(r.customerId, invoice.paymentForInvoice, receiptNumber,
                                r.paymentId, invoice.id)
         IN  IF ReceiptUnique(receipts, receipt)
             THEN /\ receipts' = receipts \cup {receipt}
                  /\ req' = [req EXCEPT ![p].idx = r.idx + 1,
                                        ![p].pc = LoopPc(r.kind, r.plan, r.idx + 1, r.amount),
                                        ![p].writes = Append(@, "receipt")]
             ELSE /\ receipts' = receipts
                  /\ \E violated \in UniqueViolations(receipts, receipt) :
                       req' = [req EXCEPT ![p] = Finish(@, 500, violated)]
    /\ UNCHANGED <<closingBalance, invoices, payments, pre, applied, credit, oneAtATime, otherVars, calls, ingestVars>>

\* The receipt for what no invoice took (remainingAmount > 0); in manualReceipt,
\* the receipt for the whole amount when no invoice is unpaid.
unmatchedReceipt(p) ==
    /\ req[p].kind \in NoTxKinds /\ req[p].pc = "unmatchedReceipt"
    /\ \E receiptNumber \in generateReceiptNumber(receipts, 1 + NumbersHeld) :
         LET r == req[p]
             remainingAmount == RemainingAmount(r.plan, r.amount)
             receipt == Receipt(r.customerId, remainingAmount, receiptNumber,
                                r.paymentId, 0)
         IN  IF ReceiptUnique(receipts, receipt)
             THEN /\ receipts' = receipts \cup {receipt}
                  /\ credit' = [credit EXCEPT ![r.customerId] = @ + remainingAmount]
                  /\ req' = [req EXCEPT ![p].pc = "customerUpdate",
                                        ![p].writes = Append(@, "receipt")]
             ELSE /\ receipts' = receipts
                  /\ credit' = credit
                  /\ \E violated \in UniqueViolations(receipts, receipt) :
                       req' = [req EXCEPT ![p] = Finish(@, 500, violated)]
    /\ UNCHANGED <<closingBalance, invoices, payments, pre, applied, oneAtATime, otherVars, calls, ingestVars>>

\* prisma.customer.update({data: {closingBalance: ...}}), computed from the
\* customer as read at the start; then the response: 201, or manualReceipt's 200
\* when it found no unpaid invoice or the amount exceeded them.  manualReceipt
\* ends there, with no receipt for what no invoice took; the others go on to
\* the SMS.
customerUpdate(p) ==
    /\ req[p].kind \in NoTxKinds /\ req[p].pc = "customerUpdate"
    /\ LET r == req[p]
           remainingAmount == RemainingAmount(r.plan, r.amount)
           finalClosingBalance ==
               IF r.kind = "MpesaNoTx" THEN MpesaFinalClosingBalance(r.cb, r.amount)
               ELSE IF r.kind = "manualCashPayment"
                    THEN CashFinalClosingBalance(r.cb, remainingAmount)
               ELSE ReceiptNewClosingBalance(r.cb, r.amount)
       IN  /\ closingBalance' = [closingBalance EXCEPT ![r.customerId] = finalClosingBalance]
           /\ IF r.kind = "manualReceipt"
              THEN /\ req' = [req EXCEPT ![p] =
                                Finish([@ EXCEPT !.writes = Append(@, "customer")],
                                       IF remainingAmount > 0 THEN 200 ELSE 201, "none")]
                   /\ credit' = IF r.plan = <<>> THEN credit
                                ELSE [credit EXCEPT ![r.customerId] = @ + remainingAmount]
              ELSE /\ req' = [req EXCEPT ![p].pc = "sendSMS", ![p].status = 201,
                                         ![p].responses = Append(@, 201),
                                         ![p].writes = Append(@, "customer")]
                   /\ credit' = credit
    /\ UNCHANGED <<invoices, payments, receipts, pre, applied, oneAtATime, otherVars, calls, ingestVars>>

\* The handlers whose sendSMS catches its own errors and only logs them.
SmsErrorsSwallowed == {"MpesaTxBalanceFirst"}

\* await sendSMS(...) after the response: the gateway accepts the message and the
\* handler returns.
sendSMS(p) ==
    /\ req[p].pc = "sendSMS"
    /\ req' = [req EXCEPT ![p] = End([@ EXCEPT !.sms = "sent"])]
    /\ UNCHANGED <<store, pre, applied, credit, oneAtATime, otherVars, calls, ingestVars>>

\* The send fails (no phone number, the gateway refuses or is unreachable).
\* Where sendSMS rethrows, the handler's catch block runs after the response has
\* been sent and calls res.status(500).json(...) as well.
sendSMSFails(p) ==
    /\ req[p].pc = "sendSMS"
    /\ req' = [req EXCEPT ![p] =
                 IF req[p].kind \in SmsErrorsSwallowed
                 THEN End([@ EXCEPT !.sms = "failed"])
                 ELSE End([@ EXCEPT !.sms = "failed", !.error = "SMS",
                                    !.responses = Append(@, 500)])]
    /\ UNCHANGED <<store, pre, applied, credit, oneAtATime, otherVars, calls, ingestVars>>

\* An awaited store call rejects (the connection, a write conflict) or the process
\* dies there: the catch block answers 500 and what was written stays written.
StoreCallPcs ==
    {"findCustomer", "findPayment", "markReceipted", "paymentCreate", "findInvoices",
     "invoiceUpdate", "receiptCreate", "unmatchedReceipt", "customerUpdate"}

\* The errors of a store call that rejected: the call itself, or a unique index.
StoreErrors == {"Store", "receiptNumber", "paymentId"}

storeCallFails(p) ==
    /\ req[p].kind \in NoTxKinds /\ req[p].pc \in StoreCallPcs
    /\ req' = [req EXCEPT ![p] = Finish(@, 500, "Store")]
    /\ UNCHANGED <<store, pre, applied, credit, oneAtATime, otherVars, calls, ingestVars>>

----------------------------------------------------------------------------
(* MpesaPaymentSettlement inside prisma.$transaction: the body runs against   *)
(* the store as one step; a throw inside it, a refused write or a failed      *)
(* commit leaves the store as it was.                                         *)

NumReceipts(plan, totalAmount) ==
    Len(plan) + (IF RemainingAmount(plan, totalAmount) > 0 THEN 1 ELSE 0)

\* The receipts the body creates, in order: one per visited invoice, then the one
\* for what is left.
SettlementReceipts(c, pay, plan, totalAmount, nums) ==
    [k \in 1..NumReceipts(plan, totalAmount) |->
        IF k <= Len(plan)
        THEN Receipt(c, plan[k].paymentForInvoice, nums[k], pay, plan[k].id)
        ELSE Receipt(c, RemainingAmount(plan, totalAmount), nums[k], pay, 0)]

\* Every tx.receipt.create of the body is accepted by the unique indexes.
RECURSIVE CreatesAccepted(_, _)
CreatesAccepted(rs, new) ==
    \/ new = <<>>
    \/ /\ ReceiptUnique(rs, Head(new))
       /\ CreatesAccepted(rs \cup {Head(new)}, Tail(new))

\* The unique indexes that refuse the first refused tx.receipt.create of the body.
RECURSIVE FirstRefused(_, _)
FirstRefused(rs, new) ==
    IF new = <<>> THEN {}
    ELSE IF ReceiptUnique(rs, Head(new))
         THEN FirstRefused(rs \cup {Head(new)}, Tail(new))
         ELSE UniqueViolations(rs, Head(new))

\* tx.invoice.update({data: {amountPaid: invoice.amountPaid + paymentForInvoice, status}})
RECURSIVE InvoicesSet(_, _)
InvoicesSet(invs, plan) ==
    IF plan = <<>> THEN invs
    ELSE LET invoice == Head(plan)
             newAmountPaid == invoice.amountPaid + invoice.paymentForInvoice
         IN  InvoicesSet(
                 [invs EXCEPT ![invoice.id].amountPaid = newAmountPaid,
                              ![invoice.id].status =
                                  MpesaNewStatus(newAmountPaid, invoice.invoiceAmount)],
                 Tail(plan))

\* tx.invoice.update({data: {amountPaid: {increment: paymentForInvoice}, status}})
RECURSIVE InvoicesIncremented(_, _)
InvoicesIncremented(invs, plan) ==
    IF plan = <<>> THEN invs
    ELSE LET invoice == Head(plan)
         IN  InvoicesIncremented(
                 [invs EXCEPT ![invoice.id].amountPaid = @ + invoice.paymentForInvoice,
                              ![invoice.id].status =
                                  MpesaNewStatus(invoice.amountPaid + invoice.paymentForInvoice,
                                                 invoice.invoiceAmount)],
                 Tail(plan))

RECURSIVE LoopWrites(_)
LoopWrites(plan) ==
    IF plan = <<>> THEN <<>> ELSE <<"invoice", "receipt">> \o LoopWrites(Tail(plan))

\* The body's writes in the order it issues them.
TxWrites(kind, plan, totalAmount) ==
    LET last == IF RemainingAmount(plan, totalAmount) > 0 THEN <<"receipt">> ELSE <<>>
    IN  IF kind = "MpesaTxBalanceFirst"
        THEN <<"customer", "payment">> \o LoopWrites(plan) \o last
        ELSE <<"payment">> \o LoopWrites(plan) \o last \o <<"customer">>

settlementTransaction(p) ==
    /\ req[p].kind \in TxKinds /\ req[p].pc = "transaction"
    /\ LET r == req[p]
           c == r.customerId
           pay == r.paymentId
       IN  IF c \notin Customers \/ pay \notin DOMAIN payments
           THEN \* throw new Error('Customer not found.') / ('Payment not found.')
                /\ req' = [req EXCEPT ![p] = Finish(@, 500, "NotFound")]
                /\ UNCHANGED <<store, applied, credit>>
           ELSE IF AlreadyReceipted(payments[pay])
           THEN \* throw new Error('Payment already receipted.')
                /\ req' = [req EXCEPT ![p] = Finish(@, 500, "AlreadyReceipted")]
                /\ UNCHANGED <<store, applied, credit>>
           ELSE LET totalAmount == payments[pay].amount
                    plan == Allocate(FindInvoices(invoices, c, MpesaWhere), totalAmount)
                    remainingAmount == RemainingAmount(plan, totalAmount)
                IN  \E nums \in [1..NumReceipts(plan, totalAmount) ->
                                     generateReceiptNumber(receipts, NumReceipts(plan, totalAmount))] :
                      LET new == SettlementReceipts(c, pay, plan, totalAmount, nums)
                      IN  IF CreatesAccepted(receipts, new)
                          THEN /\ closingBalance' =
                                    [closingBalance EXCEPT ![c] =
                                        IF r.kind = "MpesaTxBalanceFirst"
                                        THEN UpdatedClosingBalance(closingBalance[c], totalAmount)
                                        ELSE MpesaTxFinalClosingBalance(
                                                 closingBalance[c],
                                                 AppliedToInvoices(plan), remainingAmount)]
                               /\ payments' = [payments EXCEPT ![pay].receipted = TRUE]
                               /\ invoices' = IF r.kind = "MpesaTxBalanceFirst"
                                              THEN InvoicesIncremented(invoices, plan)
                                              ELSE InvoicesSet(invoices, plan)
                               /\ receipts' = receipts \cup {new[k] : k \in DOMAIN new}
                               /\ applied' = [i \in InvoiceIds |->
                                                applied[i] + invoices'[i].amountPaid
                                                           - invoices[i].amountPaid]
                               /\ credit' = [credit EXCEPT ![c] = @ + remainingAmount]
                               /\ req' = [req EXCEPT ![p].pc = "sendSMS",
                                                     ![p].status = 201,
                                                     ![p].responses = Append(@, 201),
                                                     ![p].amount = totalAmount,
                                                     ![p].writes = TxWrites(r.kind, plan, totalAmount)]
                          ELSE /\ \E violated \in FirstRefused(receipts, new) :
                                    req' = [req EXCEPT ![p] = Finish(@, 500, violated)]
                               /\ UNCHANGED <<store, applied, credit>>
    /\ UNCHANGED <<pre, oneAtATime, otherVars, calls, ingestVars>>

\* The transaction is aborted (a write conflict with a concurrent writer, a lost
\* connection): nothing is written and the catch block answers 500.
transactionFails(p) ==
    /\ req[p].kind \in TxKinds /\ req[p].pc = "transaction"
    /\ req' = [req EXCEPT ![p] = Finish(@, 500, "Store")]
    /\ UNCHANGED <<store, pre, applied, credit, oneAtATime, otherVars, calls, ingestVars>>

----------------------------------------------------------------------------
Next ==
    \E p \in Procs :
        \/ StartMpesa(p)
        \/ StartManual(p)
        \/ findCustomer(p)
        \/ findPayment(p)
        \/ markReceipted(p)
        \/ paymentCreate(p)
        \/ findInvoices(p)
        \/ invoiceUpdate(p)
        \/ receiptCreate(p)
        \/ unmatchedReceipt(p)
        \/ customerUpdate(p)
        \/ sendSMS(p)
        \/ sendSMSFails(p)
        \/ storeCallFails(p)
        \/ settlementTransaction(p)
        \/ transactionFails(p)

\* Requests arrive at any time and run concurrently.
Init ==
    /\ InitStore({AmountPaidInitConcurrent}, PaymentAmountsConcurrent)
    /\ oneAtATime = FALSE /\ calls = 0 /\ NoIngestion /\ NoOtherOperation

Spec == Init /\ [][Next]_vars

\* One request at a time: the next one arrives when the last has ended.
InitSeq ==
    /\ InitStore(AmountPaidInit, PaymentAmounts)
    /\ oneAtATime = TRUE /\ calls = 0 /\ NoIngestion /\ NoOtherOperation

SpecSeq == InitSeq /\ [][Next]_vars

----------------------------------------------------------------------------
(* settleInvoice: the pass that turns the unprocessed MpesaTransaction       *)
(* records into payments, receipts and balance updates.  Every await of the  *)
(* pass is a step; the body of prisma.$transaction runs as one step.  An     *)
(* error anywhere is caught around the whole loop, which ends the pass.      *)
(*                                                                           *)
(* paymentSettlement.js holds two versions of it.  Version A settles each    *)
(* transaction inside prisma.$transaction and then sends an SMS; it never    *)
(* writes processed.  Version B writes call by call with no transaction,     *)
(* sets processed at the end and sends no SMS; it names the Payment's        *)
(* transaction code mpesaTransactionId and looks the Payment up by it.       *)

MaxPasses == 2
MaxTransactions == 2

\* TransAmount as parseFloat reads it; 0 stands for what is not a positive number.
TransAmounts == {0, 3, 6}

\* Customer.phoneNumber: the customer's own id stands for it; 0 is no customer's.
phoneNumber(c) == c

\* prisma.mpesaTransaction.findMany({where: {processed: false}})
RECURSIVE Unprocessed(_, _)
Unprocessed(txs, k) ==
    IF k > Len(txs) THEN <<>>
    ELSE (IF txs[k].processed THEN <<>> ELSE <<k>>) \o Unprocessed(txs, k + 1)

\* No Payment is ever found by its transaction code.
existingPaymentNeverFound(ps, MpesaCode) == FALSE

\* prisma.payment.findUnique({where: {TransactionId: MpesaCode}}) finds a record.
existingPayment(ps, MpesaCode) ==
    \E k \in DOMAIN ps : ps[k].TransactionId = MpesaCode

\* processInvoices: the receiptInvoices rows it returns, one per invoice it
\* updated, and one with invoiceId null (0) when no invoice was open or money
\* was left over.
RECURSIVE InvoiceIdsOf(_)
InvoiceIdsOf(plan) ==
    IF plan = <<>> THEN <<>> ELSE <<Head(plan).id>> \o InvoiceIdsOf(Tail(plan))

processInvoices(plan, paymentAmount) ==
    IF plan = <<>> THEN <<0>>
    ELSE InvoiceIdsOf(plan) \o (IF RemainingAmount(plan, paymentAmount) > 0 THEN <<0>> ELSE <<>>)

\* ReceiptInvoice.invoiceId is a required String: a row with null is refused.
ReceiptInvoicesAccepted(rows) == \A k \in DOMAIN rows : rows[k] # 0

\* The locals of the loop body are gone.
NoLocals(ps) ==
    [ps EXCEPT !.cb = 0, !.receiptNumber = 0, !.paymentId = 0, !.plan = <<>>, !.idx = 0]

\* The pass goes on to the next fetched transaction, or returns after the last.
NextTransaction(ps) ==
    IF ps.i < Len(ps.fetched)
    THEN [NoLocals(ps) EXCEPT !.pc = "existingPayment", !.i = @ + 1]
    ELSE [NoLocals(ps) EXCEPT !.pc = "idle", !.fetched = <<>>, !.i = 0, !.runs = @ + 1]

\* catch (error) around the loop: the error is logged and the pass returns.
Caught(ps, error) ==
    [NoLocals(ps) EXCEPT !.pc = "idle", !.fetched = <<>>, !.i = 0,
                         !.error = error, !.runs = @ + 1]

transaction(w) == mpesaTransactions[pass[w].fetched[pass[w].i]]

\* settleInvoice is called and fetches the unprocessed transactions.
settleInvoice(w) ==
    /\ pass[w].pc = "idle" /\ pass[w].runs < MaxPasses
    /\ LET fetched == Unprocessed(mpesaTransactions, 1)
       IN  pass' = [pass EXCEPT ![w] =
                      IF fetched = <<>>
                      THEN [@ EXCEPT !.runs = @ + 1, !.error = "none"]
                      ELSE [@ EXCEPT !.pc = "existingPayment", !.fetched = fetched,
                                     !.i = 1, !.error = "none"]]
    /\ UNCHANGED <<store, req, pre, applied, credit, oneAtATime, otherVars, calls, mpesaTransactions>>

\* Only a negative amount is taken for invalid.
InvalidAmountNegativeOnly(paymentAmount) == paymentAmount < 0

\* isNaN(paymentAmount) || paymentAmount <= 0
InvalidAmount(paymentAmount) == paymentAmount <= 0

\* An amount that is not a positive number is skipped, and so is a transaction
\* whose code a Payment already carries.
findExistingPayment(w) ==
    /\ pass[w].pc = "existingPayment"
    /\ pass' = [pass EXCEPT ![w] =
                  IF \/ InvalidAmount(transaction(w).TransAmount)
                     \/ existingPayment(payments, transaction(w).TransID)
                  THEN NextTransaction(@)
                  ELSE [@ EXCEPT !.pc = "findCustomer"]]
    /\ UNCHANGED <<store, req, pre, applied, credit, oneAtATime, otherVars, calls, mpesaTransactions>>

\* prisma.customer.findUnique({where: {phoneNumber: BillRefNumber}}), outside any
\* transaction.  Version A keeps the balance read here for its update.
findCustomerByBillRef(w) ==
    /\ pass[w].pc = "findCustomer"
    /\ pass' = [pass EXCEPT ![w] =
                  IF \E c \in Customers : phoneNumber(c) = transaction(w).BillRefNumber
                  THEN IF pass[w].version = "A"
                       THEN [@ EXCEPT !.pc = "generateUniqueReceiptNumber",
                                      !.cb = closingBalance[transaction(w).BillRefNumber]]
                       ELSE [@ EXCEPT !.pc = "paymentCreate"]
                  ELSE IF pass[w].version = "A"
                       THEN [@ EXCEPT !.pc = "createUnmatched"]
                       ELSE [@ EXCEPT !.pc = "createPaymentRecord"]]
    /\ UNCHANGED <<store, req, pre, applied, credit, oneAtATime, otherVars, calls, mpesaTransactions>>

\* Version A, no customer has the reference: the payment is kept unreceipted.
createUnmatchedPayment(w) ==
    /\ pass[w].version = "A" /\ pass[w].pc = "createUnmatched"
    /\ IF existingPayment(payments, transaction(w).TransID)
       THEN payments' = payments /\ pass' = [pass EXCEPT ![w] = Caught(@, "TransactionId")]
       ELSE /\ payments' = Append(payments, Payment(transaction(w).TransAmount, FALSE,
                                                    transaction(w).TransID))
            /\ pass' = [pass EXCEPT ![w] = NextTransaction(@)]
    /\ UNCHANGED <<closingBalance, invoices, receipts, req, pre, applied, credit, oneAtATime, otherVars,
                   calls, mpesaTransactions>>

\* Version B, no customer has the reference: await createPaymentRecord(...), a
\* function the module neither defines nor imports; the call throws a
\* ReferenceError.
createPaymentRecord(w) ==
    /\ pass[w].version = "B" /\ pass[w].pc = "createPaymentRecord"
    /\ pass' = [pass EXCEPT ![w] = Caught(@, "ReferenceError")]
    /\ UNCHANGED <<store, req, pre, applied, credit, oneAtATime, otherVars, calls, mpesaTransactions>>

\* Version B: prisma.payment.create({data: {..., receipted: false, receiptId: null}}).
settleInvoicePaymentCreate(w) ==
    /\ pass[w].version = "B" /\ pass[w].pc = "paymentCreate"
    /\ IF existingPayment(payments, transaction(w).TransID)
       THEN payments' = payments /\ pass' = [pass EXCEPT ![w] = Caught(@, "TransactionId")]
       ELSE /\ payments' = Append(payments, Payment(transaction(w).TransAmount, FALSE,
                                                    transaction(w).TransID))
            /\ pass' = [pass EXCEPT ![w].pc = "generateUniqueReceiptNumber",
                                    ![w].paymentId = Len(payments) + 1]
    /\ UNCHANGED <<closingBalance, invoices, receipts, req, pre, applied, credit, oneAtATime, otherVars,
                   calls, mpesaTransactions>>

\* The lookup answers null for every number.
receiptFindUniqueNeverFinds(rs, receiptNumber) == FALSE

\* prisma.receipt.findUnique({where: {receiptNumber}}) !== null
receiptFindUnique(rs, receiptNumber) ==
    \E x \in rs : x.receiptNumber = receiptNumber

\* One round of generateUniqueReceiptNumber's loop: a number is drawn and looked
\* up; a number some receipt has is drawn again.
generateUniqueReceiptNumber(w) ==
    /\ pass[w].pc = "generateUniqueReceiptNumber"
    /\ \E receiptNumber \in generateReceiptNumber(receipts, 1 + NumbersHeld) :
         LET exists == receiptFindUnique(receipts, receiptNumber)
         IN  pass' = IF exists THEN pass
                     ELSE [pass EXCEPT ![w].receiptNumber = receiptNumber,
                                       ![w].pc = IF pass[w].version = "A"
                                                 THEN "transaction" ELSE "processInvoices"]
    /\ UNCHANGED <<store, req, pre, applied, credit, oneAtATime, otherVars, calls, mpesaTransactions>>

\* Version A, the body of prisma.$transaction: the balance read before it less
\* the amount, the Payment, processInvoices, one Receipt for the whole amount
\* with its receiptInvoices rows, and the Payment's receiptId.  A refused write
\* rolls everything back and throws.
settleInvoiceTransaction(w) ==
    /\ pass[w].version = "A" /\ pass[w].pc = "transaction"
    /\ LET c == transaction(w).BillRefNumber
           paymentAmount == transaction(w).TransAmount
           paymentId == Len(payments) + 1
           plan == Allocate(FindInvoices(invoices, c, MpesaWhere), paymentAmount)
           rows == processInvoices(plan, paymentAmount)
           receipt == [Receipt(c, paymentAmount, pass[w].receiptNumber, paymentId, 0)
                          EXCEPT !.receiptInvoices = rows]
           refused == (IF existingPayment(payments, transaction(w).TransID)
                       THEN {"TransactionId"} ELSE {})
                          \cup (IF ReceiptInvoicesAccepted(rows) THEN {} ELSE {"invoiceId"})
                          \cup UniqueViolations(receipts, receipt)
       IN  IF refused = {}
           THEN /\ closingBalance' = [closingBalance EXCEPT ![c] = pass[w].cb - paymentAmount]
                /\ payments' = Append(payments,
                                      [Payment(paymentAmount, TRUE, transaction(w).TransID)
                                          EXCEPT !.receiptId = receipt.receiptNumber])
                /\ invoices' = InvoicesSet(invoices, plan)
                /\ receipts' = receipts \cup {receipt}
                /\ applied' = [i \in InvoiceIds |->
                                 applied[i] + invoices'[i].amountPaid - invoices[i].amountPaid]
                /\ pass' = [pass EXCEPT ![w].pc = "sendSMS"]
           ELSE /\ \E error \in refused : pass' = [pass EXCEPT ![w] = Caught(@, error)]
                /\ UNCHANGED <<store, applied>>
    /\ UNCHANGED <<req, pre, credit, oneAtATime, otherVars, calls, mpesaTransactions>>

\* Version A: await sendSMS(message, customer) after the transaction has committed.
settleInvoiceSendSMS(w) ==
    /\ pass[w].version = "A" /\ pass[w].pc = "sendSMS"
    /\ pass' = [pass EXCEPT ![w] =
                  NextTransaction([@ EXCEPT !.sms = @ \cup {transaction(w).TransID}])]
    /\ UNCHANGED <<store, req, pre, applied, credit, oneAtATime, otherVars, calls, mpesaTransactions>>

\* Version B, processInvoices: the status written with an invoice's new amountPaid.
ProcessInvoicesNewStatus(newAmountPaid, invoiceAmount) ==
    IF newAmountPaid >= invoiceAmount THEN "PAID" ELSE "UNPAID"

\* processInvoices going on to mark the transaction processed with no receipt made.
ProcessInvoicesPcSkipsReceipt(plan, idx, paymentAmount) ==
    IF idx <= Len(plan) THEN "invoiceUpdate"
    ELSE IF RemainingAmount(plan, paymentAmount) > 0 THEN "readBalance"
    ELSE "markProcessed"

\* processInvoices going on to the receiptId update with no receipt made.
ProcessInvoicesPcReceiptIdFirst(plan, idx, paymentAmount) ==
    IF idx <= Len(plan) THEN "invoiceUpdate"
    ELSE IF RemainingAmount(plan, paymentAmount) > 0 THEN "readBalance"
    ELSE "setReceiptId"

\* Where version B's processInvoices goes on after the invoice at idx - 1.
ProcessInvoicesPc(plan, idx, paymentAmount) ==
    IF idx <= Len(plan) THEN "invoiceUpdate"
    ELSE IF RemainingAmount(plan, paymentAmount) > 0 THEN "readBalance"
    ELSE "receiptCreate"

\* Version B, processInvoices: prisma.invoice.findMany({where: {customerId,
\* status: 'UNPAID'}}) with no orderBy.
processInvoicesFindMany(w) ==
    /\ pass[w].version = "B" /\ pass[w].pc = "processInvoices"
    /\ \E found \in AnyOrder(FindInvoices(invoices, transaction(w).BillRefNumber, CashWhere)) :
         pass' = [pass EXCEPT ![w].plan = Allocate(found, transaction(w).TransAmount),
                              ![w].pc = "markReceipted"]
    /\ UNCHANGED <<store, req, pre, applied, credit, oneAtATime, otherVars, calls, mpesaTransactions>>

\* Version B, processInvoices: prisma.payment.update({data: {receipted: true}}).
processInvoicesMarkReceipted(w) ==
    /\ pass[w].version = "B" /\ pass[w].pc = "markReceipted"
    /\ payments' = [payments EXCEPT ![pass[w].paymentId].receipted = TRUE]
    /\ pass' = [pass EXCEPT ![w].idx = 1,
                            ![w].pc = ProcessInvoicesPc(pass[w].plan, 1,
                                                        transaction(w).TransAmount)]
    /\ UNCHANGED <<closingBalance, invoices, receipts, req, pre, applied, credit, oneAtATime, otherVars,
                   calls, mpesaTransactions>>

\* Version B, processInvoices: prisma.invoice.update with the amountPaid and status
\* computed from the invoice as it was read.
processInvoicesInvoiceUpdate(w) ==
    /\ pass[w].version = "B" /\ pass[w].pc = "invoiceUpdate"
    /\ LET invoice == pass[w].plan[pass[w].idx]
           newAmountPaid == invoice.amountPaid + invoice.paymentForInvoice
       IN  /\ invoices' = [invoices EXCEPT
                             ![invoice.id].amountPaid = newAmountPaid,
                             ![invoice.id].status =
                                 ProcessInvoicesNewStatus(newAmountPaid, invoice.invoiceAmount)]
           /\ applied' = [applied EXCEPT ![invoice.id] = @ + invoice.paymentForInvoice]
    /\ pass' = [pass EXCEPT ![w].idx = @ + 1,
                            ![w].pc = ProcessInvoicesPc(pass[w].plan, pass[w].idx + 1,
                                                        transaction(w).TransAmount)]
    /\ UNCHANGED <<closingBalance, payments, receipts, req, pre, credit, oneAtATime, otherVars, calls,
                   mpesaTransactions>>

\* Version B, processInvoices with money left over: prisma.customer.findUnique
\* reads the balance.
processInvoicesReadBalance(w) ==
    /\ pass[w].version = "B" /\ pass[w].pc = "readBalance"
    /\ pass' = [pass EXCEPT ![w].cb = closingBalance[transaction(w).BillRefNumber],
                            ![w].pc = "customerUpdate"]
    /\ UNCHANGED <<store, req, pre, applied, credit, oneAtATime, otherVars, calls, mpesaTransactions>>

\* Version B, processInvoices with money left over: the balance read less the
\* whole paymentAmount is written.
processInvoicesCustomerUpdate(w) ==
    /\ pass[w].version = "B" /\ pass[w].pc = "customerUpdate"
    /\ LET c == transaction(w).BillRefNumber
       IN  /\ closingBalance' = [closingBalance EXCEPT
                                   ![c] = pass[w].cb - transaction(w).TransAmount]
           /\ credit' = [credit EXCEPT
                           ![c] = @ + RemainingAmount(pass[w].plan, transaction(w).TransAmount)]
    /\ pass' = [pass EXCEPT ![w].pc = "receiptCreate"]
    /\ UNCHANGED <<invoices, payments, receipts, req, pre, applied, oneAtATime, otherVars, calls,
                   mpesaTransactions>>

\* Version B: prisma.receipt.create for the whole paymentAmount, with a
\* receiptInvoices row per invoice processInvoices updated.
settleInvoiceReceiptCreate(w) ==
    /\ pass[w].version = "B" /\ pass[w].pc = "receiptCreate"
    /\ LET receipt == [Receipt(transaction(w).BillRefNumber, transaction(w).TransAmount,
                               pass[w].receiptNumber, pass[w].paymentId, 0)
                          EXCEPT !.receiptInvoices = InvoiceIdsOf(pass[w].plan)]
           refused == UniqueViolations(receipts, receipt)
       IN  IF refused = {}
           THEN /\ receipts' = receipts \cup {receipt}
                /\ pass' = [pass EXCEPT ![w].pc = "setReceiptId"]
           ELSE /\ receipts' = receipts
                /\ \E error \in refused : pass' = [pass EXCEPT ![w] = Caught(@, error)]
    /\ UNCHANGED <<closingBalance, invoices, payments, req, pre, applied, credit, oneAtATime, otherVars,
                   calls, mpesaTransactions>>

\* Version B: prisma.payment.update({data: {receiptId: receiptData.id}}).
settleInvoiceSetReceiptId(w) ==
    /\ pass[w].version = "B" /\ pass[w].pc = "setReceiptId"
    /\ payments' = [payments EXCEPT ![pass[w].paymentId].receiptId = pass[w].receiptNumber]
    /\ pass' = [pass EXCEPT ![w].pc = "markProcessed"]
    /\ UNCHANGED <<closingBalance, invoices, receipts, req, pre, applied, credit, oneAtATime, otherVars,
                   calls, mpesaTransactions>>

\* Version B: prisma.mpesaTransaction.update({data: {processed: true}}), then the
\* next transaction.
settleInvoiceMarkProcessed(w) ==
    /\ pass[w].version = "B" /\ pass[w].pc = "markProcessed"
    /\ mpesaTransactions' = [mpesaTransactions EXCEPT
                               ![pass[w].fetched[pass[w].i]].processed = TRUE]
    /\ pass' = [pass EXCEPT ![w] = NextTransaction(@)]
    /\ UNCHANGED <<store, req, pre, applied, credit, oneAtATime, otherVars, calls>>

\* An awaited call of the pass rejects (the store, the transaction's commit, the
\* SMS gateway): nothing of the step is written and the catch ends the pass.  An
\* invalid amount is skipped before any call is awaited.
settleInvoiceFails(w) ==
    /\ pass[w].pc \notin {"idle"}
    /\ pass[w].pc = "existingPayment" => ~InvalidAmount(transaction(w).TransAmount)
    /\ pass' = [pass EXCEPT ![w] = Caught(@, IF pass[w].pc = "sendSMS" THEN "SMS" ELSE "Store")]
    /\ UNCHANGED <<store, req, pre, applied, credit, oneAtATime, otherVars, calls, mpesaTransactions>>

\* Version A of settleInvoice beside the handlers of a manual payment.
NextIngest ==
    \/ \E w \in Runners :
        \/ settleInvoice(w)
        \/ findExistingPayment(w)
        \/ findCustomerByBillRef(w)
        \/ createUnmatchedPayment(w)
        \/ generateUniqueReceiptNumber(w)
        \/ settleInvoiceTransaction(w)
        \/ settleInvoiceSendSMS(w)
        \/ settleInvoiceFails(w)
    \/ \E p \in Procs :
        \/ StartManual(p)
        \/ findCustomer(p)
        \/ paymentCreate(p)
        \/ findInvoices(p)
        \/ invoiceUpdate(p)
        \/ receiptCreate(p)
        \/ unmatchedReceipt(p)
        \/ customerUpdate(p)
        \/ sendSMS(p)
        \/ sendSMSFails(p)
        \/ storeCallFails(p)

\* The confirmed Mpesa transactions wait unprocessed.
InitTransactions ==
    \E amounts \in [1..MaxTransactions -> TransAmounts],
       refs \in [1..MaxTransactions -> Customers \cup {0}] :
      mpesaTransactions =
          [k \in 1..MaxTransactions |->
              [TransID |-> k, TransAmount |-> amounts[k], BillRefNumber |-> refs[k],
               processed |-> FALSE]]

\* One call of settleInvoice at a time, in version A; one manual payment may
\* arrive while it runs.
InitIngest ==
    /\ InitStore({AmountPaidInitConcurrent}, {1})
    /\ oneAtATime = FALSE /\ calls = MaxCalls - 1 /\ NoOtherOperation
    /\ InitTransactions
    /\ pass = [w \in Runners |-> IF w = 1 THEN IdlePass
                                 ELSE [IdlePass EXCEPT !.runs = MaxPasses]]

SpecIngest == InitIngest /\ [][NextIngest]_vars

\* settleInvoice alone, in either version.
NextPasses ==
    \E w \in Runners :
        \/ settleInvoice(w)
        \/ findExistingPayment(w)
        \/ findCustomerByBillRef(w)
        \/ createUnmatchedPayment(w)
        \/ createPaymentRecord(w)
        \/ settleInvoicePaymentCreate(w)
        \/ generateUniqueReceiptNumber(w)
        \/ settleInvoiceTransaction(w)
        \/ settleInvoiceSendSMS(w)
        \/ processInvoicesFindMany(w)
        \/ processInvoicesMarkReceipted(w)
        \/ processInvoicesInvoiceUpdate(w)
        \/ processInvoicesReadBalance(w)
        \/ processInvoicesCustomerUpdate(w)
        \/ settleInvoiceReceiptCreate(w)
        \/ settleInvoiceSetReceiptId(w)
        \/ settleInvoiceMarkProcessed(w)
        \/ settleInvoiceFails(w)

\* Calls of settleInvoice of one version that may overlap in time: the second
\* runner makes one call, at any moment of the first runner's passes.
InitPasses ==
    /\ InitStore({AmountPaidInitConcurrent}, {1})
    /\ oneAtATime = FALSE /\ calls = MaxCalls /\ NoOtherOperation
    /\ InitTransactions
    /\ \E version \in {"A", "B"} :
         pass = [w \in Runners |->
                    [IdlePass EXCEPT !.version = version,
                                     !.runs = IF w = 1 THEN 0 ELSE MaxPasses - 1]]

SpecPasses == InitPasses /\ [][NextPasses]_vars

\* The same passes with a fair draw: Math.random gives every candidate number a
\* positive chance in every round, so a round that can draw a number no receipt
\* has is not put off for ever.
SpecPassesFair ==
    /\ InitPasses /\ [][NextPasses]_vars
    /\ \A w \in Runners : WF_vars(generateUniqueReceiptNumber(w))

----------------------------------------------------------------------------
(* Phone numbers on their way to the SMS gateway.  A string is the sequence  *)
(* of its characters.                                                        *)

MaxLocal == 2

\* The characters a local part is made of.
Digits == {"0", "2", "4", "5", "7"}

\* phone.startsWith(prefix)
startsWith(number, prefix) ==
    Len(number) >= Len(prefix) /\ SubSeq(number, 1, Len(prefix)) = prefix

\* phone.slice(1)
slice1(number) == SubSeq(number, 2, Len(number))

\* sanitizePhoneNumber of manualCashPayment.js and paymentSettlement.js, for a
\* string.
sanitizePhoneNumber(number) ==
    IF startsWith(number, <<"+", "2", "5", "4">>) THEN slice1(number)
    ELSE IF startsWith(number, <<"0">>) THEN <<"2", "5", "4">> \o slice1(number)
    ELSE IF startsWith(number, <<"2", "5", "4">>) THEN number
    ELSE <<"2", "5", "4">> \o number

\* sanitizePhoneNumber of bulkSMS/sendSMS.js.
sanitizePhoneNumberBulk(number) ==
    IF startsWith(number, <<"2", "5", "4">>) THEN number
    ELSE IF startsWith(number, <<"0">>) THEN <<"2", "5", "4">> \o slice1(number)
    ELSE <<"2", "5", "4">> \o number

\* generateBulkBillSmsMessage: const mobile = customer.phoneNumber.startsWith('0') ? ...
mobileOfBill(number) ==
    IF startsWith(number, <<"0">>) THEN <<"2", "5", "4">> \o slice1(number)
    ELSE IF startsWith(number, <<"+">>) THEN slice1(number)
    ELSE number

Sanitizers == {"sanitizePhoneNumber", "sanitizePhoneNumberBulk", "mobileOfBill"}

Sanitize(sanitizer, number) ==
    IF sanitizer = "sanitizePhoneNumber" THEN sanitizePhoneNumber(number)
    ELSE IF sanitizer = "sanitizePhoneNumberBulk" THEN sanitizePhoneNumberBulk(number)
    ELSE mobileOfBill(number)

\* The forms a subscriber number is stored in, by what stands before the local part.
Forms == {"0", "+254", "254"}

FormPrefix(form) ==
    IF form = "0" THEN <<"0">>
    ELSE IF form = "+254" THEN <<"+", "2", "5", "4">>
    ELSE <<"2", "5", "4">>

\* The local parts: the strings of 1..MaxLocal digits.
LocalParts == UNION {[1..n -> Digits] : n \in 1..MaxLocal}

\* A customer's phone number is sanitized for a message.
SanitizeStored ==
    /\ phone.times = 0
    /\ \E sanitizer \in Sanitizers :
         phone' = [phone EXCEPT !.sanitizer = sanitizer,
                                !.mobile = Sanitize(sanitizer, phone.stored), !.times = 1]
    /\ UNCHANGED <<store, req, pre, applied, credit, oneAtATime, calls, ingestVars, office, sms>>

\* The sanitized number is stored and sanitized again for the next message.
SanitizeAgain ==
    /\ phone.times = 1
    /\ phone' = [phone EXCEPT !.mobile = Sanitize(phone.sanitizer, phone.mobile), !.times = 2]
    /\ UNCHANGED <<store, req, pre, applied, credit, oneAtATime, calls, ingestVars, office, sms>>

NextPhone == SanitizeStored \/ SanitizeAgain

InitPhone ==
    /\ InitStore({AmountPaidInitConcurrent}, {1})
    /\ oneAtATime = FALSE /\ calls = MaxCalls /\ NoIngestion /\ office = NoOffice /\ sms = NoSms
    /\ \E form \in Forms, local \in LocalParts :
         phone = [NoPhone EXCEPT !.form = form, !.local = local,
                                 !.stored = FormPrefix(form) \o local]

SpecPhone == InitPhone /\ [][NextPhone]_vars

----------------------------------------------------------------------------
(* The back-office operations that read or write customers: editCustomer,    *)
(* getCustomersWithDebtReport, sendUnpaidCustomers.                          *)

MaxOffice == 2

\* Customer.monthlyCharge, in half-shillings; every customer is ACTIVE.
monthlyCharge == [c \in Customers |-> 2]

\* req.body.closingBalance of editCustomer: <<a number>>, or <<>> when the body
\* has no such field.
BodyClosingBalance == {<<>>, <<0>>, <<7>>}

\* PUT editCustomer: prisma.customer.update with the fields of the body; a field
\* the body lacks is undefined and is not written; an id no customer has makes
\* update throw.
editCustomer ==
    /\ office.done < MaxOffice
    /\ \E customerId \in Customers \cup {0}, body \in BodyClosingBalance :
         IF customerId \notin Customers
         THEN /\ office' = [operation |-> "editCustomer", status |-> 500, customers |-> {},
                            done |-> office.done + 1]
              /\ closingBalance' = closingBalance
         ELSE /\ office' = [operation |-> "editCustomer", status |-> 200,
                            customers |-> {customerId}, done |-> office.done + 1]
              /\ closingBalance' = IF body = <<>> THEN closingBalance
                                   ELSE [closingBalance EXCEPT ![customerId] = body[1]]
    /\ UNCHANGED <<invoices, payments, receipts, req, pre, applied, credit, oneAtATime, calls,
                   ingestVars, phone, sms>>

\* getCustomersWithDebtReport: the customers with an UNPAID invoice whose
\* closingBalance is more than twice their monthlyCharge.
customersWithHighDebt ==
    {c \in Customers :
        /\ \E i \in InvoiceIds : invoices[i].customerId = c /\ invoices[i].status = "UNPAID"
        /\ closingBalance[c] > 2 * monthlyCharge[c]}

getCustomersWithDebtReport ==
    /\ office.done < MaxOffice
    /\ \E status \in (IF customersWithHighDebt = {} THEN {404} ELSE {200, 500}) :
         office' = [operation |-> "getCustomersWithDebtReport", status |-> status,
                    customers |-> customersWithHighDebt, done |-> office.done + 1]
    /\ UNCHANGED <<store, req, pre, applied, credit, oneAtATime, calls, ingestVars, phone, sms>>

\* sendUnpaidCustomers: closingBalance >= monthlyCharge * 0.15
unpaidCustomers == {c \in Customers : 20 * closingBalance[c] >= 3 * monthlyCharge[c]}

\* sendUnpaidCustomers: the SMS balance may be too low (500), the bulk send may
\* fail (500), nobody may owe (404).
sendUnpaidCustomers ==
    /\ office.done < MaxOffice
    /\ \E status \in (IF unpaidCustomers = {} THEN {404, 500} ELSE {200, 500}) :
         office' = [operation |-> "sendUnpaidCustomers", status |-> status,
                    customers |-> unpaidCustomers, done |-> office.done + 1]
    /\ UNCHANGED <<store, req, pre, applied, credit, oneAtATime, calls, ingestVars, phone, sms>>

\* The back office at work beside one manual payment.
NextOffice ==
    \/ editCustomer
    \/ getCustomersWithDebtReport
    \/ sendUnpaidCustomers
    \/ \E p \in Procs :
        \/ StartManual(p)
        \/ findCustomer(p)
        \/ paymentCreate(p)
        \/ findInvoices(p)
        \/ invoiceUpdate(p)
        \/ receiptCreate(p)
        \/ unmatchedReceipt(p)
        \/ customerUpdate(p)
        \/ sendSMS(p)
        \/ sendSMSFails(p)
        \/ storeCallFails(p)

InitOffice ==
    /\ InitStore({AmountPaidInitConcurrent}, {1})
    /\ oneAtATime = FALSE /\ calls = MaxCalls - 1 /\ NoIngestion /\ NoOtherOperation

SpecOffice == InitOffice /\ [][NextOffice]_vars

----------------------------------------------------------------------------
(* Two payments in a row for one customer with one open invoice, amounts in  *)
(* half-shillings.                                                           *)

\* The customer owes 1000 on one UNPAID invoice of 1000, nothing paid; the
\* customer's other invoice is PAID and the other customer owes nothing.
Scenario == [invoiceAmount |-> 2000, payments |-> <<1200, 1000>>]

\* The next request of the scenario: the Mpesa handlers settle the stored
\* Payment of the step, the manual handlers are given its amount.
StartScenario(p) ==
    /\ calls < Len(Scenario.payments)
    /\ \E kind \in Kinds :
         IF kind \in MpesaKinds
         THEN Start(p, kind, 1, calls + 1, 0)
         ELSE Start(p, kind, 1, 0, Scenario.payments[calls + 1])

NextScenario ==
    \E p \in Procs :
        \/ StartScenario(p)
        \/ findCustomer(p)
        \/ findPayment(p)
        \/ markReceipted(p)
        \/ paymentCreate(p)
        \/ findInvoices(p)
        \/ invoiceUpdate(p)
        \/ receiptCreate(p)
        \/ unmatchedReceipt(p)
        \/ customerUpdate(p)
        \/ sendSMS(p)
        \/ sendSMSFails(p)
        \/ storeCallFails(p)
        \/ settlementTransaction(p)
        \/ transactionFails(p)

InitScenario ==
    /\ invoices = [i \in InvoiceIds |->
                     IF i = 1
                     THEN [customerId |-> 1, invoiceAmount |-> Scenario.invoiceAmount,
                           amountPaid |-> 0, status |-> "UNPAID"]
                     ELSE [customerId |-> InvCustomer(i), invoiceAmount |-> InvoiceAmountInit[i],
                           amountPaid |-> InvoiceAmountInit[i], status |-> "PAID"]]
    /\ closingBalance = [c \in Customers |-> DueSum(invoices, c, 1)]
    /\ payments = [k \in PaymentIds |-> Payment(Scenario.payments[k], FALSE, 0)]
    /\ receipts = {}
    /\ req = [p \in Procs |-> IdleReq]
    /\ applied = [i \in InvoiceIds |-> invoices[i].amountPaid]
    /\ credit = [c \in Customers |-> 0]
    /\ pre = [closingBalance |-> closingBalance, invoices |-> invoices,
              payments |-> payments, receipts |-> receipts, credit |-> credit]
    /\ oneAtATime = TRUE /\ calls = 0 /\ NoIngestion /\ NoOtherOperation

SpecScenario == InitScenario /\ [][NextScenario]_vars

----------------------------------------------------------------------------
(* The sms records.  Three functions create them: the sendSMS helper of the  *)
(* first MpesaPaymentSettlement, the sendSMS helper of the second, and       *)
(* generateBulkBillSmsMessage.  Each creates its records with status         *)
(* 'pending', posts to the gateway and then updates the status.  Every await *)
(* is a step.                                                                *)

MaxSms == 3

SmsHelpers == {"sendSMSFirst", "sendSMSSecond", "generateBulkBillSmsMessage"}

\* What the gateway call does: the message is accepted, the gateway answers
\* that it is not, or the call gets no answer.
GatewayAnswers == {"accepted", "refused", "unreachable"}

\* A record of the sms model as prisma.sms.create writes it; gateway is what
\* became of the message at the gateway.
SmsRecord == [status |-> "pending", gateway |-> "none"]

\* What the helper's catch block throws on.  The first sendSMS tests clientsmsid,
\* a const of the try block that is out of scope in the catch block, so the test
\* itself throws and the update to 'failed' behind it is not reached; the other
\* two rethrow.  None of them writes a status.
SmsCatch(helper, error) ==
    IF helper = "sendSMSFirst" THEN "ReferenceError" ELSE error

\* The call ends in its catch block.
SmsCaught(job, error) ==
    [job EXCEPT !.pc = "idle", !.thrown = SmsCatch(job.helper, error)]

\* A helper is called: for no recipient (a customer without a phone number, no
\* active customer with an invoice) sendSMS throws and the bulk function
\* returns null.
smsCalled ==
    /\ sms.pc = "idle"
    /\ \E helper \in SmsHelpers, recipients \in 0..2 :
         /\ helper # "generateBulkBillSmsMessage" => recipients <= 1
         /\ Len(sms.records) + recipients <= MaxSms
         /\ LET job == [sms EXCEPT !.helper = helper, !.recipients = recipients,
                                   !.ids = {}, !.thrown = "none"]
            IN  sms' = IF recipients > 0 THEN [job EXCEPT !.pc = "create"]
                       ELSE IF helper = "generateBulkBillSmsMessage" THEN job
                       ELSE SmsCaught(job, "Error")
    /\ UNCHANGED <<store, req, pre, applied, credit, oneAtATime, calls, ingestVars, phone, office>>

\* prisma.sms.create({data: {..., status: 'pending'}}), one record per recipient.
smsCreate ==
    /\ sms.pc = "create"
    /\ sms' = [sms EXCEPT
                 !.records = @ \o [k \in 1..sms.recipients |-> SmsRecord],
                 !.ids = (Len(sms.records) + 1)..(Len(sms.records) + sms.recipients),
                 !.pc = "post"]
    /\ UNCHANGED <<store, req, pre, applied, credit, oneAtATime, calls, ingestVars, phone, office>>

\* axios.post to the gateway.  It throws when the gateway is unreachable or
\* answers with an error status; the bulk function also reads
\* response.data.success and returns without an update when it is not set.
axiosPost ==
    /\ sms.pc = "post"
    /\ \E answer \in GatewayAnswers :
         LET posted == [sms EXCEPT !.records =
                          [k \in DOMAIN @ |->
                             IF k \in sms.ids
                             THEN [@[k] EXCEPT !.gateway = IF answer = "accepted"
                                                           THEN "accepted" ELSE "failed"]
                             ELSE @[k]]]
         IN  sms' = IF answer = "accepted" THEN [posted EXCEPT !.pc = "update"]
                    ELSE IF answer = "refused" /\ sms.helper = "generateBulkBillSmsMessage"
                    THEN [posted EXCEPT !.pc = "idle"]
                    ELSE SmsCaught(posted, "Gateway")
    /\ UNCHANGED <<store, req, pre, applied, credit, oneAtATime, calls, ingestVars, phone, office>>

\* prisma.sms.update / updateMany({data: {status: 'sent'}}) for the records of
\* this call.
smsUpdate ==
    /\ sms.pc = "update"
    /\ sms' = [sms EXCEPT !.pc = "idle",
                          !.records = [k \in DOMAIN @ |->
                                         IF k \in sms.ids
                                         THEN [@[k] EXCEPT !.status = "sent"] ELSE @[k]]]
    /\ UNCHANGED <<store, req, pre, applied, credit, oneAtATime, calls, ingestVars, phone, office>>

\* The store rejects the create or the update.
smsStoreRejects ==
    /\ sms.pc \in {"create", "update"}
    /\ sms' = SmsCaught(sms, "Store")
    /\ UNCHANGED <<store, req, pre, applied, credit, oneAtATime, calls, ingestVars, phone, office>>

NextSms == smsCalled \/ smsCreate \/ axiosPost \/ smsUpdate \/ smsStoreRejects

InitSms ==
    /\ InitStore({AmountPaidInitConcurrent}, {1})
    /\ oneAtATime = FALSE /\ calls = MaxCalls /\ NoIngestion /\ NoOtherOperation

SpecSms == InitSms /\ [][NextSms]_vars

----------------------------------------------------------------------------
(* Properties.  Those about one request at a time are stated of SpecSeq,    *)
(* where pre is the store as the running request found it; those about      *)
(* interleavings are stated of Spec, where pre stays the initial store;     *)
(* those about settleInvoice are stated of SpecIngest.                      *)

\* C1: a MpesaPaymentSettlement call for a Payment that was already receipted
\* when the call arrived writes nothing (receipts, invoices, closingBalance and
\* payments stay as the earlier call left them), never answers 201, and, when
\* it gets as far as reading the Payment, ends as already receipted.
C1_SecondSettlementRefused ==
    \A p \in Procs :
        (req[p].kind \in MpesaKinds /\ req[p].startReceipted) =>
            /\ store = <<pre.closingBalance, pre.invoices, pre.payments, pre.receipts>>
            /\ req[p].writes = <<>>
            /\ req[p].status # 201
            /\ (req[p].pc = "done" /\ req[p].customerId \in Customers
                                   /\ req[p].error \notin StoreErrors)
                   => req[p].error = "AlreadyReceipted"

\* A second call for a Payment whose first call created receipts has ended as
\* already receipted.
C1_SecondSettlementRefused_Witness ==
    \E p \in Procs :
        /\ req[p].kind \in MpesaKinds /\ req[p].startReceipted
        /\ req[p].pc = "done" /\ req[p].error = "AlreadyReceipted"
        /\ \E x \in receipts : x.paymentId = req[p].paymentId

\* C2: once a MpesaPaymentSettlement call has answered 201, the customer's
\* closingBalance is the balance the call found minus the payment's amount.
C2_BalanceReducedByAmount ==
    \A p \in Procs :
        (req[p].kind \in MpesaKinds /\ req[p].pc \in {"sendSMS", "done"}
                                    /\ req[p].status = 201) =>
            closingBalance[req[p].customerId] = req[p].preBal - req[p].amount

\* C3: when the only two requests, both for the same customer and both of the
\* same handler, one that subtracts the whole amount when run alone, have ended
\* successfully, the customer's closingBalance is the initial one minus the sum
\* of the two amounts.
C3_ConcurrentBalanceUpdatesKept ==
    \A p, q \in Procs :
        (/\ p # q
         /\ \A o \in Procs \ {p, q} : req[o].pc = "idle"
         /\ req[p].pc = "done" /\ req[q].pc = "done"
         /\ req[p].status \in {200, 201} /\ req[q].status \in {200, 201}
         /\ req[p].kind \in {"MpesaNoTx", "MpesaTxBalanceFirst", "manualReceipt"}
         /\ req[q].kind = req[p].kind
         /\ req[p].customerId = req[q].customerId) =>
            closingBalance[req[p].customerId] =
                pre.closingBalance[req[p].customerId] - (req[p].amount + req[q].amount)

\* C4: when a request has ended on a failed store operation, every payment's
\* receipted flag, the invoices, the receipts and the closingBalance are as
\* they were before it.
C4_FailedSettlementLeavesNothing ==
    \A p \in Procs :
        (req[p].pc = "done" /\ req[p].error \in StoreErrors) =>
            /\ \A k \in DOMAIN pre.payments :
                   payments[k].receipted = pre.payments[k].receipted
            /\ invoices = pre.invoices
            /\ receipts = pre.receipts
            /\ closingBalance = pre.closingBalance

\* C5: of the calls of one MpesaPaymentSettlement for one Payment, at most one
\* has written the customer's closingBalance and at most one has set receipted.
C5_SettledAtMostOnce ==
    \A pay \in DOMAIN payments, kind \in MpesaKinds :
        LET callsThatWrote(what) ==
                {p \in Procs : /\ req[p].kind = kind
                               /\ req[p].paymentId = pay
                               /\ \E k \in DOMAIN req[p].writes : req[p].writes[k] = what}
        IN  /\ Cardinality(callsThatWrote("customer")) <= 1
            /\ Cardinality(callsThatWrote("payment")) <= 1

\* C6: once manualCashPayment or manualReceipt has answered with success for
\* totalAmount, the customer's closingBalance is the balance the call found
\* minus totalAmount.
C6_ManualPaymentReducesByTotal ==
    \A p \in Procs :
        (req[p].kind \in {"manualCashPayment", "manualReceipt"}
            /\ req[p].pc = "done" /\ req[p].status \in {200, 201}) =>
            closingBalance[req[p].customerId] = req[p].preBal - req[p].amount

\* C7: when a settlement has ended successfully and, before it, a customer's
\* closingBalance was the sum of the dues of the customer's UNPAID and PPAID
\* invoices minus the money received that no invoice took, then it still is.
C7_LedgerPreserved ==
    \A p \in Procs, c \in Customers :
        (/\ req[p].pc = "done" /\ req[p].status \in {200, 201}
         /\ pre.closingBalance[c] = DueSum(pre.invoices, c, 1) - pre.credit[c]) =>
            closingBalance[c] = DueSum(invoices, c, 1) - credit[c]

\* C8: every invoice's status is PAID when amountPaid >= invoiceAmount, PPAID
\* when 0 < amountPaid < invoiceAmount, UNPAID otherwise.
C8_StatusFollowsAmountPaid ==
    \A i \in InvoiceIds :
        invoices[i].status =
            IF invoices[i].amountPaid >= invoices[i].invoiceAmount THEN "PAID"
            ELSE IF invoices[i].amountPaid > 0 THEN "PPAID" ELSE "UNPAID"

\* C9: every invoice has 0 <= amountPaid <= invoiceAmount, and what the
\* settlements have applied to it in all, each computing its share from the due
\* amount it read, does not exceed invoiceAmount.
C9_NeverPaidBeyondInvoiceAmount ==
    \A i \in InvoiceIds :
        /\ 0 <= invoices[i].amountPaid
        /\ invoices[i].amountPaid <= invoices[i].invoiceAmount
        /\ applied[i] <= invoices[i].invoiceAmount

\* C10: no step lowers an invoice's amountPaid.
C10_AmountPaidNeverDecreases ==
    [][\A i \in InvoiceIds : invoices'[i].amountPaid >= invoices[i].amountPaid]_vars


\* C11: allocation is oldest-debt-first in every settlement path: when a
\* settlement has completed, an invoice has received money from it only if every
\* invoice of the same customer that was created earlier and was outstanding
\* when the settlement started is fully covered (amountPaid = invoiceAmount).
C11_OldestDebtFirst ==
    \A p \in Procs :
        (req[p].pc = "done" /\ req[p].status \in {200, 201}) =>
            \A i, j \in InvoiceIds :
                (/\ j < i
                 /\ invoices[j].customerId = invoices[i].customerId
                 /\ invoices[i].amountPaid > pre.invoices[i].amountPaid
                 /\ pre.invoices[j].amountPaid < pre.invoices[j].invoiceAmount) =>
                    invoices[j].amountPaid = invoices[j].invoiceAmount

\* What the settlement of request p has added to invoice i so far.
AppliedBy(i) == invoices[i].amountPaid - pre.invoices[i].amountPaid

\* remainingAmount when the loop reaches visit k of the plan.
RECURSIVE RemainingBefore(_, _, _)
RemainingBefore(plan, totalAmount, k) ==
    IF k <= 1 THEN totalAmount
    ELSE RemainingBefore(plan, totalAmount, k - 1) - plan[k - 1].paymentForInvoice

\* C12: for each invoice visited during allocation the applied amount is exactly
\* min(remaining, invoiceAmount - amountPaid), remaining decreases by that
\* amount, and no invoice is visited or updated once remaining has reached 0:
\* every visit starts with money left, the invoice is raised by exactly the
\* amount of its visit, an invoice not yet visited (or never visited) is
\* untouched, and after a successful settlement at most one invoice is covered
\* in part, and only when the whole payment has been applied.
C12_AppliedIsMinOfRemainingAndDue ==
    \A p \in Procs :
        LET r == req[p]
            visited(k) == k < r.idx \/ (k = r.idx /\ r.pc \in {"paymentCreate", "receiptCreate"})
            due(i) == pre.invoices[i].invoiceAmount - pre.invoices[i].amountPaid
            inPart == {i \in InvoiceIds : 0 < AppliedBy(i) /\ AppliedBy(i) < due(i)}
            total == AppliedBy(1) + AppliedBy(2) + AppliedBy(3)
        IN  /\ \A k \in DOMAIN r.plan :
                 LET remaining == RemainingBefore(r.plan, r.amount, k)
                     invoice == r.plan[k]
                 IN  /\ remaining > 0
                     /\ invoice.paymentForInvoice =
                            Min(remaining, invoice.invoiceAmount - invoice.amountPaid)
                     /\ RemainingBefore(r.plan, r.amount, k + 1) =
                            remaining - invoice.paymentForInvoice
                     /\ AppliedBy(invoice.id) =
                            IF visited(k) THEN invoice.paymentForInvoice ELSE 0
            /\ (r.plan # <<>>) =>
                 \A i \in InvoiceIds :
                     (\A k \in DOMAIN r.plan : r.plan[k].id # i) => AppliedBy(i) = 0
            /\ (r.pc \in {"sendSMS", "done"} /\ r.status \in {200, 201}) =>
                 /\ \A i \in InvoiceIds : 0 <= AppliedBy(i) /\ AppliedBy(i) <= due(i)
                 /\ total <= r.amount
                 /\ Cardinality(inPart) <= 1
                 /\ inPart # {} => total = r.amount

C12_AppliedIsMinOfRemainingAndDue_Witness ==
    \E p \in Procs :
        /\ req[p].pc = "customerUpdate" /\ Len(req[p].plan) = 2
        /\ req[p].plan[2].paymentForInvoice <
               req[p].plan[2].invoiceAmount - req[p].plan[2].amountPaid
        /\ AppliedBy(req[p].plan[1].id) > 0 /\ AppliedBy(req[p].plan[2].id) > 0

\* The sum of the amounts of a set of receipts.
RECURSIVE SumAmounts(_)
SumAmounts(rs) ==
    IF rs = {} THEN 0
    ELSE LET x == CHOOSE y \in rs : TRUE
         IN  x.amount + SumAmounts(rs \ {x})

\* C13: no part of a payment is silently dropped: for every successful
\* settlement, the amounts it applied to invoices plus the remainder equal the
\* payment amount, and the amounts of the receipts it created sum to the payment
\* amount (what is left after the invoices is on a receipt of its own).
C13_ReceiptsSumToPayment ==
    \A p \in Procs :
        (req[p].pc \in {"sendSMS", "done"} /\ req[p].status \in {200, 201}) =>
            /\ AppliedBy(1) + AppliedBy(2) + AppliedBy(3) <= req[p].amount
            /\ SumAmounts(receipts \ pre.receipts) = req[p].amount

\* C14: a payment settled for a customer with no outstanding (UNPAID or PPAID)
\* invoice succeeds and creates exactly one receipt, tied to no invoice, for the
\* full payment amount: when settleInvoice's transaction runs for such a
\* customer and neither the store nor a unique index refuses it, it commits with
\* that one receipt.
C14_NoInvoicesOneUnattachedReceipt ==
    [][\A w \in Runners :
        (/\ pass[w].pc = "transaction" /\ pass'[w].pc # "transaction"
         /\ pass'[w].error \notin {"Store", "receiptNumber", "TransactionId"}
         /\ FindInvoices(invoices, transaction(w).BillRefNumber, MpesaWhere) = <<>>) =>
            /\ pass'[w].pc = "sendSMS"
            /\ \E receipt \in receipts' :
                 /\ receipts' \ receipts = {receipt}
                 /\ receipt.amount = transaction(w).TransAmount
                 /\ receipt.forInvoice = 0
                 /\ \A k \in DOMAIN receipt.receiptInvoices : receipt.receiptInvoices[k] = 0]_vars

\* C15: a settlement creates exactly one Receipt per invoice that received an
\* allocation, carrying that invoice's applied amount (not the whole payment
\* amount) and the payment link, plus exactly one more Receipt with no invoice
\* when and only when the remainder is positive: stated of the transaction of
\* settleInvoice when it commits.
C15_OneReceiptPerAllocation ==
    [][\A w \in Runners :
       (pass[w].pc = "transaction" /\ pass'[w].pc = "sendSMS") =>
          LET new == receipts' \ receipts
              gain(i) == invoices'[i].amountPaid - invoices[i].amountPaid
              for(i) == {r \in new : r.forInvoice = i \/ r.receiptInvoices = <<i>>}
              unattached == {r \in new : r.forInvoice = 0 /\ r.receiptInvoices \in {<<>>, <<0>>}}
              remainder == transaction(w).TransAmount - (gain(1) + gain(2) + gain(3))
          IN  /\ \A i \in InvoiceIds :
                   IF gain(i) > 0
                   THEN \E r \in new : for(i) = {r} /\ r.amount = gain(i)
                                          /\ r.paymentId = Len(payments')
                   ELSE for(i) = {}
              /\ Cardinality(unattached) = (IF remainder > 0 THEN 1 ELSE 0)]_vars

\* C16: a single Payment whose amount is split across two or more invoices (or
\* across an invoice and a remainder) settles successfully and all the resulting
\* receipts reference that one Payment: a MpesaPaymentSettlement or
\* manualCashPayment call for an existing customer and an unreceipted Payment,
\* with no store call failing and no receipt number taken, ends with success
\* however many receipts the split needs.
C16_SplitPaymentSettles ==
    \A p \in Procs :
        (/\ req[p].kind \in MpesaKinds \cup {"manualCashPayment"}
         /\ req[p].pc = "done"
         /\ req[p].customerId \in Customers
         /\ req[p].kind \in MpesaKinds => (req[p].paymentId \in DOMAIN payments
                                             /\ ~req[p].startReceipted)
         /\ req[p].error \notin {"Store", "receiptNumber"}) =>
            req[p].status = 201

\* C17: in every reachable state of the store no two Receipt records share a
\* receiptNumber, whatever settlements produced them.
C17_ReceiptNumbersUnique ==
    \A x, y \in receipts : x.receiptNumber = y.receiptNumber => x = y

C17_ReceiptNumbersUnique_Witness ==
    /\ Cardinality(receipts) >= 2
    /\ \E p \in Procs : req[p].pc = "done" /\ req[p].error = "receiptNumber"

\* C18: every receipt number used by a settlement was checked against the store
\* before use and regenerated on collision, so no settlement fails or is rolled
\* back because its receipt number already exists: no request and no pass of
\* settleInvoice ends on the unique index of receiptNumber refusing the only
\* receipt of its payment.
C18_NoFailureOnReceiptNumber ==
    /\ \A p \in Procs :
         LET r == req[p]
             totalAmount == pre.payments[r.paymentId].amount
             plan == Allocate(FindInvoices(pre.invoices, r.customerId, MpesaWhere), totalAmount)
         IN  (r.pc = "done" /\ r.error = "receiptNumber") =>
                 IF r.kind \in TxKinds
                 THEN NumReceipts(plan, totalAmount) > 1
                 ELSE \E x \in receipts : x.paymentId = r.paymentId
    /\ \A w \in Runners : pass[w].error # "receiptNumber"

\* C19: in every settlement path the SMS for a payment is issued only after all
\* of that settlement's store writes have committed, and none is sent for a
\* settlement that failed or was rolled back: a request whose SMS went out has
\* answered 201 with every write of its plan made, down to the balance, and
\* writes nothing afterwards; a transaction settleInvoice sent an SMS for has
\* its receipted Payment and its Receipt in the store.
C19_SmsOnlyAfterCommit ==
    /\ \A p \in Procs :
         LET r == req[p]
         IN  (r.sms # "none") =>
                 /\ r.pc = "done" /\ r.status = 201 /\ r.responses[1] = 201
                 /\ r.error \notin StoreErrors \cup {"NotFound", "AlreadyReceipted"}
                 /\ \E k \in DOMAIN r.writes : r.writes[k] = "customer"
                 /\ \E k \in DOMAIN r.writes : r.writes[k] = "receipt"
                 /\ r.kind \in MpesaKinds => payments[r.paymentId].receipted
    /\ \A w \in Runners : \A MpesaCode \in pass[w].sms :
         \E k \in DOMAIN payments :
             /\ payments[k].TransactionId = MpesaCode /\ payments[k].receipted
             /\ \E x \in receipts : x.paymentId = k /\ x.receiptNumber = payments[k].receiptId
    /\ \A w \in Runners : pass[w].pc = "sendSMS" =>
         \E k \in DOMAIN payments : payments[k].TransactionId = transaction(w).TransID
                                      /\ payments[k].receipted

C19_SmsOnlyAfterCommit_Witness ==
    /\ \E w \in Runners : pass[w].sms # {}
    /\ \E p \in Procs : req[p].sms = "sent" /\ Len(req[p].writes) >= 3

\* C20: a notification failure never fails a settlement: when sending the SMS
\* fails after a committed settlement, the caller receives exactly one response,
\* the success response, and no error response is produced for that request.
C20_SmsFailureIsNotAnError ==
    \A p \in Procs :
        req[p].sms = "failed" => (req[p].responses = <<201>> /\ req[p].error = "none")

\* The Payment records that carry a raw transaction's code.
PaymentsOf(MpesaCode) == {k \in DOMAIN payments : payments[k].TransactionId = MpesaCode}

\* The settlement of a raw transaction is complete in the store: a receipted
\* Payment carries its code, the Receipt of that Payment exists and the Payment
\* points at it.
Settled(MpesaCode) ==
    \E k \in PaymentsOf(MpesaCode) :
        /\ payments[k].receipted
        /\ payments[k].receiptId # 0
        /\ \E x \in receipts : x.paymentId = k /\ x.receiptNumber = payments[k].receiptId

\* C21: in the ingestion loop a raw transaction's processed flag becomes true
\* only after its settlement has succeeded (a receipted Payment and its receipt
\* exist for it), and it stays false whenever settlement failed: a transaction
\* marked processed is settled in the store, and no pass that ended in its catch
\* left the transaction it was working on processed.
C21_ProcessedOnlyAfterSettlement ==
    \A t \in DOMAIN mpesaTransactions :
        mpesaTransactions[t].processed => Settled(mpesaTransactions[t].TransID)

C21_ProcessedOnlyAfterSettlement_Witness ==
    \E t \in DOMAIN mpesaTransactions :
        /\ mpesaTransactions[t].processed
        /\ \E w \in Runners : pass[w].error # "none"

\* C22: at-least-once ingestion: a raw transaction with a valid amount and a
\* matching customer whose settlement failed in one pass is attempted again on a
\* later pass, and is eventually settled and marked processed: a pass that comes
\* to such a transaction while no other call is working, and finds it neither
\* settled nor processed, goes on to settle it (or is stopped by the store).
C22_FailedSettlementIsAttemptedAgain ==
    [][\A w \in Runners :
        (/\ pass[w].pc = "existingPayment"
         /\ pass'[w] # pass[w]
         /\ \A v \in Runners \ {w} : pass[v].pc = "idle"
         /\ transaction(w).TransAmount > 0
         /\ \E c \in Customers : phoneNumber(c) = transaction(w).BillRefNumber
         /\ ~transaction(w).processed
         /\ ~Settled(transaction(w).TransID)) =>
            \/ pass'[w].pc = "findCustomer"
            \/ pass'[w].error = "Store"]_vars

\* The receipts made for a raw transaction: those of the Payments that carry its code.
ReceiptsOf(MpesaCode) == {x \in receipts : x.paymentId \in PaymentsOf(MpesaCode)}

\* What the raw transactions of a customer that have a Payment add up to.
RECURSIVE PaidIn(_, _)
PaidIn(c, t) ==
    IF t > Len(mpesaTransactions) THEN 0
    ELSE (IF /\ mpesaTransactions[t].BillRefNumber = phoneNumber(c)
             /\ PaymentsOf(mpesaTransactions[t].TransID) # {}
          THEN mpesaTransactions[t].TransAmount ELSE 0) + PaidIn(c, t + 1)

\* C23: retrying ingestion is safe: over any number of passes, overlapping ones
\* and ones that read again a transaction still marked processed = false
\* included, each raw transaction reduces its customer's closingBalance at most
\* once and produces at most one receipt set: a transaction never has two
\* receipts, and a customer's balance is never lower than the balance before
\* ingestion less the amounts of the customer's transactions that have a Payment.
C23_RetryIsSafe ==
    /\ \A t \in DOMAIN mpesaTransactions :
         Cardinality(ReceiptsOf(mpesaTransactions[t].TransID)) <= 1
    /\ \A c \in Customers : closingBalance[c] >= pre.closingBalance[c] - PaidIn(c, 1)

C23_RetryIsSafe_Witness ==
    /\ \E w \in Runners : pass[w].error = "TransactionId"
    /\ \E w \in Runners : pass[w].runs = MaxPasses /\ pass[w].error = "none"
    /\ \E t \in DOMAIN mpesaTransactions :
         /\ ReceiptsOf(mpesaTransactions[t].TransID) # {}
         /\ ~mpesaTransactions[t].processed
         /\ \E c \in Customers : /\ phoneNumber(c) = mpesaTransactions[t].BillRefNumber
                                 /\ closingBalance[c] < pre.closingBalance[c]

\* C24: at most one Payment is linked to any given external transaction id, and
\* a pass that finds an existing Payment for the transaction's id skips it
\* without creating a Payment, a receipt or any balance change: no step leaves
\* two Payments with the code of one raw transaction, and the step of a pass
\* that looks up a code some Payment carries changes nothing in the store and
\* leaves the pass at the next transaction or at its end.
C24_OnePaymentPerTransactionId ==
    [][/\ \A t \in DOMAIN mpesaTransactions :
            Cardinality({k \in DOMAIN payments' :
                            payments'[k].TransactionId = mpesaTransactions[t].TransID}) <= 1
       /\ \A w \in Runners :
            (/\ pass[w].pc = "existingPayment"
             /\ pass'[w] # pass[w]
             /\ PaymentsOf(transaction(w).TransID) # {}) =>
                /\ store' = store
                /\ mpesaTransactions' = mpesaTransactions
                /\ \/ pass'[w].pc = "existingPayment" /\ pass'[w].i = pass[w].i + 1
                   \/ pass'[w].pc = "idle"]_vars

C24_OnePaymentPerTransactionId_Witness ==
    \E w \in Runners :
        /\ pass[w].version = "A" /\ pass[w].i = 2 /\ pass[w].sms = {}
        /\ mpesaTransactions[1].TransAmount > 0
        /\ \E c \in Customers : phoneNumber(c) = mpesaTransactions[1].BillRefNumber
        /\ PaymentsOf(mpesaTransactions[1].TransID) # {}

\* C25: a raw transaction whose amount is unparsable or non-positive is skipped
\* by the ingestion loop: no Payment or Receipt is created for it, no customer
\* balance or invoice changes, its processed flag stays false, and the loop goes
\* on to the next transaction: the step of a pass over such a transaction
\* changes nothing but the pass's position, and no Payment ever carries its code.
C25_InvalidAmountSkipped ==
    [][/\ \A t \in DOMAIN mpesaTransactions :
            mpesaTransactions[t].TransAmount <= 0 =>
                /\ ~mpesaTransactions'[t].processed
                /\ \A k \in DOMAIN payments' :
                       payments'[k].TransactionId # mpesaTransactions[t].TransID
       /\ \A w \in Runners :
            (/\ pass[w].pc = "existingPayment"
             /\ pass'[w] # pass[w]
             /\ transaction(w).TransAmount <= 0) =>
                /\ store' = store
                /\ mpesaTransactions' = mpesaTransactions
                /\ IF pass[w].i < Len(pass[w].fetched)
                   THEN pass'[w].pc = "existingPayment" /\ pass'[w].i = pass[w].i + 1
                   ELSE pass'[w].pc = "idle"]_vars

C25_InvalidAmountSkipped_Witness ==
    \E w \in Runners :
        /\ pass[w].i = 2 /\ pass[w].pc = "findCustomer"
        /\ mpesaTransactions[1].TransAmount <= 0
        /\ ~mpesaTransactions[1].processed

\* C26: for a raw transaction whose billing reference matches no customer's
\* phone number, the ingestion loop creates exactly one Payment with receipted =
\* false and no customer link, changes no customer balance or invoice, and
\* continues with the next unprocessed transaction in the same pass: stated of
\* the step a pass takes for such a transaction when the store refuses nothing.
C26_UnmatchedReferenceKeepsPayment ==
    [][\A w \in Runners :
        (/\ pass[w].pc \in {"createUnmatched", "createPaymentRecord"}
         /\ pass'[w] # pass[w]
         /\ pass'[w].error \notin {"Store", "TransactionId"}) =>
            /\ Len(payments') = Len(payments) + 1
            /\ payments'[Len(payments')] =
                   Payment(transaction(w).TransAmount, FALSE, transaction(w).TransID)
            /\ \A k \in DOMAIN payments : payments'[k] = payments[k]
            /\ closingBalance' = closingBalance /\ invoices' = invoices
            /\ receipts' = receipts
            /\ pass'[w].error = "none"
            /\ IF pass[w].i < Len(pass[w].fetched)
               THEN pass'[w].pc = "existingPayment" /\ pass'[w].i = pass[w].i + 1
               ELSE pass'[w].pc = "idle"]_vars

\* C27: a raw transaction with an unmatched BillRefNumber does not crash the
\* ingestion loop and is marked processed once its unattached Payment has been
\* created: when no call of settleInvoice is running, a transaction whose
\* reference is no customer's and whose Payment is in the store is processed.
C27_UnmatchedReferenceMarkedProcessed ==
    (\A w \in Runners : pass[w].pc = "idle") =>
        \A t \in DOMAIN mpesaTransactions :
            (/\ \A c \in Customers : phoneNumber(c) # mpesaTransactions[t].BillRefNumber
             /\ PaymentsOf(mpesaTransactions[t].TransID) # {}) =>
                mpesaTransactions[t].processed

\* C28: a settle call naming a customer or a Payment that does not exist fails
\* with a not-found outcome surfaced as a 404-equivalent (not a 500), and leaves
\* every payment, invoice, receipt and balance unchanged: stated of a
\* MpesaPaymentSettlement call that has ended with no store call failing.
C28_NotFoundIs404 ==
    \A p \in Procs :
        LET r == req[p]
        IN  (/\ r.pc = "done" /\ r.kind \in MpesaKinds
             /\ (r.customerId \notin Customers \/ r.paymentId \notin DOMAIN pre.payments)
             /\ r.error # "Store") =>
                /\ r.status = 404 /\ r.responses = <<404>>
                /\ closingBalance = pre.closingBalance /\ invoices = pre.invoices
                /\ payments = pre.payments /\ receipts = pre.receipts

\* C29: when settling an existing, not yet receipted Payment, setting receipted
\* = true is the first write of the settlement: no customer balance, invoice or
\* receipt write for that settlement precedes it: the first write a
\* MpesaPaymentSettlement call issues is the update of the Payment.
C29_ReceiptedIsFirstWrite ==
    \A p \in Procs :
        (req[p].kind \in MpesaKinds /\ req[p].writes # <<>>) => Head(req[p].writes) = "payment"

\* C30: a Payment whose receiptId is set refers to a Receipt that already exists
\* and that references that Payment; a Payment's receiptId is never populated
\* before the receipt is created.
C30_ReceiptIdNamesExistingReceipt ==
    \A k \in DOMAIN payments :
        payments[k].receiptId # 0 =>
            \E x \in receipts : x.receiptNumber = payments[k].receiptId /\ x.paymentId = k

C30_ReceiptIdNamesExistingReceipt_Witness ==
    /\ \E k \in DOMAIN payments : payments[k].receiptId # 0
    /\ \E w \in Runners :
         /\ pass[w].pc = "setReceiptId"
         /\ payments[pass[w].paymentId].receiptId = 0
         /\ \E x \in receipts : x.paymentId = pass[w].paymentId

\* C31: phone-number normalization gives the same canonical result for the same
\* subscriber number in every accepted input form: for every local part d,
\* normalizing '0'+d, '+254'+d and '254'+d all yield '254'+d, in every sanitizer
\* used before sending an SMS, and normalizing an already normalized number
\* returns it unchanged.
C31_SanitizeIsCanonical ==
    phone.times >= 1 => phone.mobile = <<"2", "5", "4">> \o phone.local

\* C32: a customer's closingBalance is written only by settlement operations:
\* no other operation (reporting, SMS dispatch, customer editing) changes the
\* closingBalance of an existing customer: a step that changes a balance is a
\* step of a settlement request or of settleInvoice.
C32_BalanceWrittenOnlyBySettlement ==
    [][closingBalance' # closingBalance => (req' # req \/ pass' # pass)]_vars

\* The receipts a settlement added to those it found.
NewReceipts == receipts \ pre.receipts

\* The request for the first payment of the scenario has ended, or has answered
\* and is about to notify, with no store call failing and no receipt number
\* drawn twice.
FirstEnded ==
    /\ calls = 1 /\ req[1].pc \in {"done", "sendSMS"}
    /\ req[1].error \notin {"Store", "receiptNumber"}

\* The same of the request for the second payment, on the store the scenario
\* expects after the first.
SecondEnded ==
    /\ calls = 2 /\ req[1].pc \in {"done", "sendSMS"}
    /\ req[1].error \notin {"Store", "receiptNumber"}
    /\ pre.invoices[1].amountPaid = 1200 /\ pre.invoices[1].status = "PPAID"
    /\ pre.closingBalance[1] = 800

\* C33: starting from a customer with closingBalance 1000 and one UNPAID invoice
\* (invoiceAmount 1000, amountPaid 0), settling 600 leaves the invoice at
\* amountPaid 600 with status PPAID, one receipt of 600 and closingBalance 400;
\* then settling a further 500 leaves the invoice at amountPaid 1000 with status
\* PAID (400 applied), creates an unattached receipt for the remainder 100, and
\* leaves closingBalance -100.  Amounts are in half-shillings.
C33_TwoPaymentsScenario ==
    /\ FirstEnded =>
         /\ req[1].responses # <<>> /\ req[1].responses[1] = 201
         /\ invoices[1].amountPaid = 1200 /\ invoices[1].status = "PPAID"
         /\ \E r \in NewReceipts : NewReceipts = {r} /\ r.amount = 1200
         /\ closingBalance[1] = 800
    /\ SecondEnded =>
         /\ req[1].responses # <<>> /\ req[1].responses[1] = 201
         /\ invoices[1].amountPaid = 2000 /\ invoices[1].status = "PAID"
         /\ \E r \in NewReceipts : r.amount = 200 /\ r.forInvoice = 0
         /\ closingBalance[1] = -200

\* What a plan applies to each invoice: the pairs of invoice id and amount.
AppliedPerInvoice(plan) == {<<plan[k].id, plan[k].paymentForInvoice>> : k \in DOMAIN plan}

\* The statuses a handler asks findMany for.
WhereOf(kind) == IF kind \in MpesaKinds THEN MpesaWhere ELSE CashWhere

\* C34: allocation is deterministic: two runs given the same payment amount and
\* the same set of outstanding invoices produce the same per-invoice applied
\* amounts and the same remainder, independent of the order in which the store
\* returns the invoices: the plan a request has computed applies to each invoice
\* what the plan for any other order of the same invoices would, and leaves the
\* same remainder.
C34_AllocationIndependentOfOrder ==
    \A p \in Procs :
        LET r == req[p]
        IN  (r.kind \in NoTxKinds /\ r.plan # <<>>) =>
                \A other \in AnyOrder(FindInvoices(pre.invoices, r.customerId, WhereOf(r.kind))) :
                    LET plan == Allocate(other, r.amount)
                    IN  /\ AppliedPerInvoice(plan) = AppliedPerInvoice(r.plan)
                        /\ RemainingAmount(plan, r.amount) = RemainingAmount(r.plan, r.amount)

\* C35: a settlement for customer c modifies only c's closingBalance and c's
\* invoices that were UNPAID or PPAID when it started: invoices of c with status
\* PAID or CANCELLED, and the invoices, receipts and closingBalance of every
\* other customer, are unchanged.
C35_SettlementTouchesOnlyItsCustomer ==
    \A p \in Procs :
        LET r == req[p]
        IN  r.pc # "idle" =>
                /\ \A i \in InvoiceIds :
                       invoices[i] # pre.invoices[i] =>
                           /\ invoices[i].customerId = r.customerId
                           /\ pre.invoices[i].status \in {"UNPAID", "PPAID"}
                /\ \A c \in Customers \ {r.customerId} :
                       closingBalance[c] = pre.closingBalance[c]
                /\ pre.receipts \subseteq receipts
                /\ \A x \in receipts \ pre.receipts : x.customerId = r.customerId

C35_SettlementTouchesOnlyItsCustomer_Witness ==
    \E p \in Procs, i, j \in InvoiceIds :
        /\ req[p].pc = "done" /\ req[p].status = 201
        /\ invoices[i].customerId = req[p].customerId
        /\ invoices[j].customerId = req[p].customerId
        /\ pre.invoices[i].status = "PAID" /\ pre.invoices[i] = invoices[i]
        /\ invoices[j] # pre.invoices[j]
        /\ closingBalance[req[p].customerId] # pre.closingBalance[req[p].customerId]
        /\ pre.receipts # {} /\ receipts # pre.receipts

\* The receipts that reference Payment k.
ReceiptsOfPayment(k) == {x \in receipts : x.paymentId = k}

\* C36: in every state in which no settlement is in progress, every Payment with
\* receipted = true has at least one Receipt referencing it and those receipts'
\* amounts sum to the Payment's amount; a failed settlement never leaves a
\* Payment receipted with no receipt.
C36_ReceiptedPaymentHasItsReceipts ==
    (\A p \in Procs : req[p].pc \in {"idle", "done"}) =>
        \A k \in DOMAIN payments :
            payments[k].receipted =>
                /\ ReceiptsOfPayment(k) # {}
                /\ SumAmounts(ReceiptsOfPayment(k)) = payments[k].amount

\* C37: a failure while handling one raw transaction of an ingestion pass (a store
\* error in its settlement or a failure sending its SMS) does not stop the pass:
\* a pass ends only after the last transaction it fetched, so every other
\* transaction it fetched is still handled in the same pass.
C37_FailureDoesNotStopThePass ==
    [][\A w \in Runners :
        (pass[w].pc # "idle" /\ pass'[w].pc = "idle") =>
            pass[w].i = Len(pass[w].fetched)]_vars

\* Some stored receipt has number n.
NumberStored(n) == n \in {x.receiptNumber : x \in receipts}

\* Some candidate number is on no stored receipt.
NumberFree == \E n \in RcptNums : ~NumberStored(n)

\* C38: generateUniqueReceiptNumber terminates: whenever a candidate number is on
\* no stored receipt, under a fair draw the loop eventually returns a number no
\* stored receipt has (or ends with the error of a rejected lookup); and it
\* returns only numbers that are absent from the store at the time of its check.
C38_GenerateUniqueReceiptNumberTerminates ==
    /\ \A w \in Runners :
         (pass[w].pc = "generateUniqueReceiptNumber" /\ NumberFree) ~>
             \/ pass[w].receiptNumber # 0 /\ ~NumberStored(pass[w].receiptNumber)
             \/ pass[w].error = "Store"
             \/ ~NumberFree
    /\ [][\A w \in Runners :
            (pass[w].pc = "generateUniqueReceiptNumber" /\ pass'[w].receiptNumber # 0) =>
                ~NumberStored(pass'[w].receiptNumber)]_vars

\* The loop has returned a number while receipts are stored, some of whose numbers
\* a round could draw.
C38_GenerateUniqueReceiptNumberTerminates_Witness ==
    \E w \in Runners :
        /\ pass[w].receiptNumber # 0
        /\ receipts # {}
        /\ pass[w].pc \in {"transaction", "processInvoices"}
        /\ ~NumberStored(pass[w].receiptNumber)

\* C39: every sms record created by a sendSMS helper leaves the 'pending' state:
\* once the call has ended the record is 'sent' when the gateway accepted the
\* message and 'failed' when the gateway call failed, and no record is 'sent'
\* for a message the gateway did not accept.
C39_SmsRecordLeavesPending ==
    sms.pc = "idle" =>
        \A k \in DOMAIN sms.records :
            /\ sms.records[k].status # "pending"
            /\ sms.records[k].gateway = "accepted" => sms.records[k].status = "sent"
            /\ sms.records[k].gateway = "failed" => sms.records[k].status = "failed"
            /\ sms.records[k].status = "sent" => sms.records[k].gateway = "accepted"

============================================================================
